---- MODULE Spec2Model ----
(***************************************************************************)
(* A model of the chip8-core virtual machine (src/chip8-core/src): the     *)
(* memory, the stack, the display, the keypad with its key-wait state, the *)
(* instruction decoder and the fetch-decode-execute cycle of Chip8VM,      *)
(* driven through its public entry points load_rom, run_cycle,             *)
(* tick_timers and handle_key.                                             *)
(*                                                                         *)
(* A Rust panic (an out-of-range index, Stack's panic!, an unwrap of Err)  *)
(* aborts the process: the model records it in `panicked` and no entry     *)
(* point is called again.                                                  *)
(***************************************************************************)
EXTENDS Integers, Sequences, FiniteSets, TLC

VARIABLES
    memory,          \* Memory.data: [u8; RAM_SIZE]
    display,         \* Display.pixels: [[bool; WIDTH]; HEIGHT], display[y][x]
    registers,       \* Registers.data: V0..VF
    pc,              \* Registers.pc
    stack,           \* Stack {data, sp, max_size}
    keypad,          \* Keypad.state: [KeyState; 16]
    wait_state,      \* Keypad.wait_state: KeyWait
    index_register,  \* Chip8VM.index_register (I)
    delay_timer,     \* Chip8VM.delay_timer
    sound_timer,     \* Chip8VM.sound_timer
    result,          \* what the last call returned to the driver
    panicked,        \* the process was aborted by a panic
    last_call,       \* the driver's last call: its name and arguments
    wait_event,      \* the key event that moved the current or last key wait
                     \* from WaitingForPress to WaitingForRelease
    cycles,          \* number of run_cycle calls that fetched an instruction
    stored,          \* the last StoreMem whose bytes are still in memory: I, the
                     \* last register and the registers as they were
    delay_set,       \* the last SetDelayTimer: the value set and the ticks since,
                     \* counted up to that value (the timer is at 0 from there on)
    key_events,      \* per key, the last event handle_key was called with:
                     \* "press", "release", or "none" so far
    phase            \* the driver's position: "new", "running", "stack_test"

vars == <<memory, display, registers, pc, stack, keypad, wait_state,
          index_register, delay_timer, sound_timer, result, panicked,
          last_call, wait_event, cycles, stored, delay_set, key_events, phase>>

\* The fields of Chip8VM (everything but the driver's bookkeeping).
vm_vars == <<memory, display, registers, pc, stack, keypad, wait_state,
             index_register, delay_timer, sound_timer>>

----------------------------------------------------------------------------
(* Program constants *)

NUM_REGISTERS == 16
ROM_START == 512
RAM_SIZE == 4096
MAX_STACK_SIZE == 100
WIDTH == 64
HEIGHT == 32
NUM_KEYS == 16

(* Bounds of the model *)

\* run_cycle calls that fetch an instruction, per run of the driver
MaxCycles == 6
\* largest capacity handed to Stack::new by the stack harness
MaxStackCap == 3

U8 == 0..255
RegNums == 0..(NUM_REGISTERS - 1)

----------------------------------------------------------------------------
(* memory.rs: FONT and Memory *)

FONT == <<
    <<240, 144, 144, 144, 240>>,   \* 0
    <<32, 96, 32, 32, 112>>,       \* 1
    <<240, 16, 240, 128, 240>>,    \* 2
    <<240, 16, 240, 16, 240>>,     \* 3
    <<144, 144, 240, 16, 16>>,     \* 4
    <<240, 128, 240, 16, 240>>,    \* 5
    <<240, 128, 240, 144, 240>>,   \* 6
    <<240, 16, 32, 64, 64>>,       \* 7
    <<240, 144, 240, 144, 240>>,   \* 8
    <<240, 144, 240, 16, 240>>,    \* 9
    <<240, 144, 240, 144, 144>>,   \* A
    <<224, 144, 224, 144, 224>>,   \* B
    <<240, 128, 128, 128, 240>>,   \* C
    <<224, 144, 144, 144, 224>>,   \* D
    <<240, 128, 240, 128, 240>>,   \* E
    <<240, 128, 240, 128, 128>> >> \* F

\* The index Memory::new writes glyph i's byte j to: (i * row.len()) * j.
FontIndex(i, j) == (i * Len(FONT[i + 1])) * j

\* The loop of Memory::new from its k-th write on (i outer, j inner).
RECURSIVE FontLoad(_, _)
FontLoad(data, k) ==
    IF k = Len(FONT) * 5 THEN data
    ELSE LET i == k \div 5
             j == k % 5
         IN  FontLoad([data EXCEPT ![FontIndex(i, j)] = FONT[i + 1][j + 1]], k + 1)

MemoryNew == FontLoad([a \in 0..(RAM_SIZE - 1) |-> 0], 0)

\* Memory::read and Memory::write index data unchecked: an address outside
\* the array panics.
InMemory(addr) == addr \in 0..(RAM_SIZE - 1)

----------------------------------------------------------------------------
(* memory.rs: Stack. data is the Vec (1-based here), sp the depth. *)

StackNew(max_size) == [data |-> <<>>, sp |-> 0, max_size |-> max_size]

StackDefault == StackNew(MAX_STACK_SIZE)

\* Stack::push panics when sp >= max_size.
StackPushPanics(s) == s.sp >= s.max_size

StackPush(s, value) ==
    [s EXCEPT !.data = IF s.sp = Len(s.data)
                       THEN Append(s.data, value)
                       ELSE [s.data EXCEPT ![s.sp + 1] = value],
              !.sp = s.sp + 1]

\* Stack::pop panics when sp == 0.
StackPopPanics(s) == s.sp = 0

\* Faulty variant of StackPop, used to test the properties:
\* the bottom of the stack is returned instead of the top.
StackPop_Bottom(s) == [stack |-> [s EXCEPT !.sp = s.sp - 1], value |-> s.data[1]]

StackPop(s) == [stack |-> [s EXCEPT !.sp = s.sp - 1], value |-> s.data[s.sp]]

----------------------------------------------------------------------------
(* keypad.rs *)

NotWaiting == [tag |-> "NotWaiting", val |-> 0]
WaitingForPress(vx) == [tag |-> "WaitingForPress", val |-> vx]
WaitingForRelease(key_code) == [tag |-> "WaitingForRelease", val |-> key_code]

\* Faulty variant of KeyTryFromOk, used to test the properties:
\* the range check is off by one.
KeyTryFromOk_OffByOne(value) == value \in 0..16

\* Key::try_from: Ok for 0x0..0xF, Err(UnknownKey(value)) otherwise.
KeyTryFromOk(value) == value \in 0..15

KeypadNew == [k \in 0..(NUM_KEYS - 1) |-> "NotPressed"]

\* Faulty variant of is_waiting, used to test the properties:
\* WaitingForRelease is not reported as waiting.
is_waiting_PressOnly(ws) == ws.tag = "WaitingForPress"

is_waiting(ws) ==
    CASE ws.tag = "NotWaiting" -> FALSE
      [] ws.tag = "WaitingForPress" -> TRUE
      [] ws.tag = "WaitingForRelease" -> TRUE

----------------------------------------------------------------------------
(* display.rs *)

DisplayNew == [y \in 0..(HEIGHT - 1) |-> [x \in 0..(WIDTH - 1) |-> FALSE]]

\* Display::set returns without writing when a coordinate is out of range.
DisplaySet(d, x, y, val) ==
    IF y >= HEIGHT \/ x >= WIDTH THEN d
    ELSE [d EXCEPT ![y % HEIGHT][x % WIDTH] = val]

\* Display::get is Err("pixel out of range") when a coordinate is out of range.
DisplayGetOk(x, y) == ~(y >= HEIGHT \/ x >= WIDTH)

DisplayGet(d, x, y) == d[y][x]

\* Display::clear
DisplayClear(d) == DisplayNew

----------------------------------------------------------------------------
(* instructions.rs: Instruction::decode.  Masks and shifts are written as *)
(* division and remainder on the 16-bit word.                              *)

d_val(instr) == instr % 256

d_val16(instr) == instr % 4096

d_reg1(instr) == (instr \div 256) % 16

d_reg2(instr) == (instr \div 16) % 16

Unknown(instr) == [op |-> "Unknown", code |-> instr]

decode_0(instr) ==
    CASE instr % 256 = 224 -> [op |-> "ClearScreen"]
      [] instr % 256 = 238 -> [op |-> "ExitSubroutine"]
      [] OTHER -> Unknown(instr)

decode_8(instr) ==
    LET sel == instr % 16
        r12 == [reg1 |-> d_reg1(instr), reg2 |-> d_reg2(instr)]
    IN  CASE sel = 0 -> [op |-> "SetReg"] @@ r12
          [] sel = 1 -> [op |-> "OR"] @@ r12
          [] sel = 2 -> [op |-> "AND"] @@ r12
          [] sel = 3 -> [op |-> "XOR"] @@ r12
          [] sel = 4 -> [op |-> "Add"] @@ r12
          [] sel = 5 -> [op |-> "Sub"] @@ r12
          [] sel = 6 -> [op |-> "ShiftRight"] @@ r12
          [] sel = 7 -> [op |-> "Sub", reg1 |-> d_reg2(instr), reg2 |-> d_reg1(instr)]
          [] sel = 14 -> [op |-> "ShiftLeft"] @@ r12
          [] OTHER -> Unknown(instr)

decode_E(instr) ==
    CASE instr % 256 = 158 -> [op |-> "SkipIfPressed", reg |-> d_reg1(instr)]
      [] instr % 256 = 161 -> [op |-> "SkipNotPressed", reg |-> d_reg1(instr)]
      [] OTHER -> Unknown(instr)

\* Faulty variant of decode_F, used to test the properties:
\* the low byte 07 is not recognised.
decode_F_NoGetDelayTimer(instr) ==
    LET sel == instr % 256
        r == d_reg1(instr)
    IN  CASE sel = 21 -> [op |-> "SetDelayTimer", reg |-> r]
          [] sel = 24 -> [op |-> "SetSoundTimer", reg |-> r]
          [] sel = 30 -> [op |-> "AddToIndex", reg |-> r]
          [] sel = 10 -> [op |-> "GetKey", reg |-> r]
          [] sel = 41 -> [op |-> "FontChar", reg |-> r]
          [] sel = 51 -> [op |-> "BinDecConv", reg |-> r]
          [] sel = 85 -> [op |-> "StoreMem", to_reg |-> r]
          [] sel = 101 -> [op |-> "LoadMem", to_reg |-> r]
          [] OTHER -> Unknown(instr)

decode_F(instr) ==
    LET sel == instr % 256
        r == d_reg1(instr)
    IN  CASE sel = 7 -> [op |-> "GetDelayTimer", reg |-> r]
          [] sel = 21 -> [op |-> "SetDelayTimer", reg |-> r]
          [] sel = 24 -> [op |-> "SetSoundTimer", reg |-> r]
          [] sel = 30 -> [op |-> "AddToIndex", reg |-> r]
          [] sel = 10 -> [op |-> "GetKey", reg |-> r]
          [] sel = 41 -> [op |-> "FontChar", reg |-> r]
          [] sel = 51 -> [op |-> "BinDecConv", reg |-> r]
          [] sel = 85 -> [op |-> "StoreMem", to_reg |-> r]
          [] sel = 101 -> [op |-> "LoadMem", to_reg |-> r]
          [] OTHER -> Unknown(instr)

decode(instr) ==
    LET opcode == instr \div 4096
    IN  CASE opcode = 0 -> decode_0(instr)
          [] opcode = 1 -> [op |-> "Jump", addr |-> instr % 4096]
          [] opcode = 2 -> [op |-> "CallSubroutine", addr |-> instr % 4096]
          [] opcode = 3 -> [op |-> "SkipValEqual", reg |-> d_reg1(instr), val |-> d_val(instr)]
          [] opcode = 4 -> [op |-> "SkipValNotEqual", reg |-> d_reg1(instr), val |-> d_val(instr)]
          [] opcode = 5 -> [op |-> "SkipRegEqual", reg1 |-> d_reg1(instr), reg2 |-> d_reg2(instr)]
          [] opcode = 6 -> [op |-> "SetVal", reg |-> d_reg1(instr), val |-> d_val(instr)]
          [] opcode = 7 -> [op |-> "AddVal", reg |-> d_reg1(instr), val |-> d_val(instr)]
          [] opcode = 8 -> decode_8(instr)
          [] opcode = 9 -> [op |-> "SkipRegNotEqual", reg1 |-> d_reg1(instr), reg2 |-> d_reg2(instr)]
          [] opcode = 10 -> [op |-> "SetIndex", val |-> d_val16(instr)]
          [] opcode = 11 -> [op |-> "JumpOffset", val |-> d_val16(instr)]
          [] opcode = 12 -> [op |-> "Random", reg |-> d_reg1(instr), val |-> d_val(instr)]
          [] opcode = 13 -> [op |-> "Display", reg1 |-> d_reg1(instr), reg2 |-> d_reg2(instr),
                             height |-> instr % 16]
          [] opcode = 14 -> decode_E(instr)
          [] opcode = 15 -> decode_F(instr)
          [] OTHER -> Unknown(instr)

----------------------------------------------------------------------------
(* vm.rs: Chip8VM.  The handlers are operators on a record of the VM's     *)
(* fields plus what the call returns (result) and whether it panicked.     *)

OkResult == [tag |-> "Ok", val |-> 0]
ErrResult(tag, val) == [tag |-> tag, val |-> val]
PanicResult == [tag |-> "panic", val |-> 0]

\* The VM as a record of the current values of its fields.
VM == [memory |-> memory, display |-> display, registers |-> registers,
       pc |-> pc, stack |-> stack, keypad |-> keypad,
       wait_state |-> wait_state, index_register |-> index_register,
       delay_timer |-> delay_timer, sound_timer |-> sound_timer,
       result |-> result, panicked |-> panicked]

Panic(s) == [s EXCEPT !.panicked = TRUE, !.result = PanicResult]

\* Faulty variant of VMNew, used to test the properties:
\* PC starts at 0 instead of ROM_START.
VMNew_PcAtZero == [memory |-> MemoryNew, display |-> DisplayNew,
                   registers |-> [r \in RegNums |-> 0], pc |-> 0,
                   stack |-> StackDefault, keypad |-> KeypadNew,
                   wait_state |-> NotWaiting, index_register |-> 0,
                   delay_timer |-> 0, sound_timer |-> 0,
                   result |-> OkResult, panicked |-> FALSE]

\* Chip8VM::new
VMNew == [memory |-> MemoryNew, display |-> DisplayNew,
          registers |-> [r \in RegNums |-> 0], pc |-> ROM_START,
          stack |-> StackDefault, keypad |-> KeypadNew,
          wait_state |-> NotWaiting, index_register |-> 0,
          delay_timer |-> 0, sound_timer |-> 0,
          result |-> OkResult, panicked |-> FALSE]

\* self.memory.write(addr, val); a write outside the array panics.
MemWrite(s, addr, val) ==
    IF s.panicked THEN s
    ELSE IF InMemory(addr) THEN [s EXCEPT !.memory[addr] = val]
    ELSE Panic(s)

(* Bitwise operators on bytes, bit by bit. *)
Bit(v, n) == (v \div (2 ^ n)) % 2

RECURSIVE BitwiseU8(_, _, _, _)
BitwiseU8(f, a, b, n) ==
    IF n = 8 THEN 0
    ELSE (2 ^ n) * f[Bit(a, n) + 1][Bit(b, n) + 1] + BitwiseU8(f, a, b, n + 1)

BitOr(a, b) == BitwiseU8(<<<<0, 1>>, <<1, 1>>>>, a, b, 0)
BitAnd(a, b) == BitwiseU8(<<<<0, 0>>, <<0, 1>>>>, a, b, 0)
BitXor(a, b) == BitwiseU8(<<<<0, 1>>, <<1, 0>>>>, a, b, 0)

\* The sprite loop of the Display arm, from pixel k on (row k / 8, column
\* k % 8).  x_coord + x_offset and y_coord + row are u8 additions: with
\* overflow checks (a debug build) an overflow panics, without them it wraps.
RECURSIVE DrawSprite(_, _, _, _, _, _, _)
DrawSprite(s, x_coord, y_coord, height, k, vf, overflow_checks) ==
    IF s.panicked THEN s
    ELSE IF k = height * 8 THEN [s EXCEPT !.registers[15] = vf]
    ELSE
      LET row == k \div 8
          x_offset == k % 8
          ireg == s.index_register + row
      IN  IF ~InMemory(ireg) THEN Panic(s)
          ELSE
            LET sprite_byte == s.memory[ireg]
                b == Bit(sprite_byte, 7 - x_offset)
                xs == x_coord + x_offset
                ys == y_coord + row
                x == xs % 256
                y == ys % 256
            IN  IF overflow_checks /\ (xs > 255 \/ ys > 255) THEN Panic(s)
                ELSE IF b = 1 /\ ~DisplayGetOk(x, y) THEN Panic(s)
                ELSE IF b = 1 /\ DisplayGet(s.display, x, y)
                THEN DrawSprite([s EXCEPT !.display = DisplaySet(@, x, y, FALSE)],
                                x_coord, y_coord, height, k + 1, 1, overflow_checks)
                ELSE DrawSprite([s EXCEPT !.display = DisplaySet(@, x, y, b = 1)],
                                x_coord, y_coord, height, k + 1, vf, overflow_checks)

\* The loop of the StoreMem arm from register vn on.
RECURSIVE StoreLoop(_, _, _, _)
StoreLoop(s, vn, vx, addr) ==
    IF s.panicked \/ vn > vx THEN s
    ELSE StoreLoop(MemWrite(s, addr, s.registers[vn]), vn + 1, vx, addr + 1)

\* Faulty variant of LoadLoop, used to test the properties:
\* the loop stops before register vx (0..vx instead of 0..=vx).
RECURSIVE LoadLoop_Exclusive(_, _, _, _)
LoadLoop_Exclusive(s, vn, vx, addr) ==
    IF s.panicked \/ vn >= vx THEN s
    ELSE IF ~InMemory(addr) THEN Panic(s)
    ELSE LoadLoop_Exclusive([s EXCEPT !.registers[vn] = s.memory[addr]],
                            vn + 1, vx, addr + 1)

\* The loop of the LoadMem arm from register vn on.
RECURSIVE LoadLoop(_, _, _, _)
LoadLoop(s, vn, vx, addr) ==
    IF s.panicked \/ vn > vx THEN s
    ELSE IF ~InMemory(addr) THEN Panic(s)
    ELSE LoadLoop([s EXCEPT !.registers[vn] = s.memory[addr]], vn + 1, vx, addr + 1)

(* The arms of Chip8VM::execute.  s is the VM after the fetch (pc already  *)
(* advanced); each arm yields the VM after the instruction, with result    *)
(* Ok unless the arm returns an error or panics.                           *)

\* Faulty variant of ExecUnknown, used to test the properties:
\* an unknown word is skipped without an error.
ExecUnknown_Silent(s, code) == s

\* Unknown(code): return Err(VMError::UnknownInstruction(code)).
ExecUnknown(s, code) == [s EXCEPT !.result = ErrResult("UnknownInstruction", code)]

ExecExitSubroutine(s) ==
    IF StackPopPanics(s.stack) THEN Panic(s)
    ELSE LET p == StackPop(s.stack)
         IN  [s EXCEPT !.stack = p.stack, !.pc = p.value]

ExecCallSubroutine(s, addr) ==
    IF StackPushPanics(s.stack) THEN Panic(s)
    ELSE [s EXCEPT !.stack = StackPush(s.stack, s.pc % 65536), !.pc = addr]

\* Faulty variant of ExecGetKey, used to test the properties:
\* PC is not moved back onto the GetKey instruction.
ExecGetKey_NoRepark(s, vx) ==
    IF ~is_waiting(s.wait_state)
    THEN [s EXCEPT !.wait_state = WaitingForPress(vx)]
    ELSE s

ExecGetKey(s, vx) ==
    IF ~is_waiting(s.wait_state)
    THEN [s EXCEPT !.pc = s.pc - 2, !.wait_state = WaitingForPress(vx)]
    ELSE s

\* Faulty variant of ExecAddVal, used to test the properties:
\* the addition also writes its carry to VF.
ExecAddVal_SetsCarry(s, vx, val) ==
    [s EXCEPT !.registers[vx] = (s.registers[vx] + val) % 256,
              !.registers[15] = IF s.registers[vx] + val > 255 THEN 1 ELSE 0]

\* AddVal: wrapping_add, no flag.
ExecAddVal(s, vx, val) ==
    [s EXCEPT !.registers[vx] = (s.registers[vx] + val) % 256]

\* Faulty variant of ExecAdd, used to test the properties:
\* the carry is raised from a sum of 255 on.
ExecAdd_CarryAt255(s, vx, vy) ==
    LET vy_val == s.registers[vy]
        vx_val == s.registers[vx]
        s1 == [s EXCEPT !.registers[vx] = (vx_val + vy_val) % 256]
    IN  [s1 EXCEPT !.registers[15] = IF vx_val + vy_val >= 255 THEN 1 ELSE 0]

ExecAdd(s, vx, vy) ==
    LET vy_val == s.registers[vy]
        vx_val == s.registers[vx]
        s1 == [s EXCEPT !.registers[vx] = (vx_val + vy_val) % 256]
    IN  [s1 EXCEPT !.registers[15] = IF vx_val + vy_val > 255 THEN 1 ELSE 0]

\* Faulty variant of ExecSubLeft, used to test the properties:
\* equal operands count as a borrow.
ExecSubLeft_StrictFlag(s, vx, vy) ==
    LET vx_val == s.registers[vx]
        vy_val == s.registers[vy]
        s1 == [s EXCEPT !.registers[vx] = (vx_val - vy_val) % 256]
    IN  [s1 EXCEPT !.registers[15] = IF vx_val > vy_val THEN 1 ELSE 0]

ExecSubLeft(s, vx, vy) ==
    LET vx_val == s.registers[vx]
        vy_val == s.registers[vy]
        s1 == [s EXCEPT !.registers[vx] = (vx_val - vy_val) % 256]
    IN  [s1 EXCEPT !.registers[15] = IF vx_val >= vy_val THEN 1 ELSE 0]

\* Faulty variant of ExecSubRight, used to test the properties:
\* the flag is written before the difference, which then overwrites it
\* when vx is VF.
ExecSubRight_FlagFirst(s, vx, vy) ==
    LET vx_val == s.registers[vx]
        vy_val == s.registers[vy]
        s1 == [s EXCEPT !.registers[15] = IF vy_val >= vx_val THEN 1 ELSE 0]
    IN  [s1 EXCEPT !.registers[vx] = (vy_val - vx_val) % 256]

ExecSubRight(s, vx, vy) ==
    LET vx_val == s.registers[vx]
        vy_val == s.registers[vy]
        s1 == [s EXCEPT !.registers[vx] = (vy_val - vx_val) % 256]
    IN  [s1 EXCEPT !.registers[15] = IF vy_val >= vx_val THEN 1 ELSE 0]

\* Faulty variant of ExecShiftRight, used to test the properties:
\* VF receives the low nibble of Vx instead of its lowest bit.
ExecShiftRight_FlagNibble(s, vx) ==
    LET reg_val == s.registers[vx]
        s1 == [s EXCEPT !.registers[vx] = reg_val \div 2]
    IN  [s1 EXCEPT !.registers[15] = reg_val % 16]

ExecShiftRight(s, vx) ==
    LET reg_val == s.registers[vx]
        s1 == [s EXCEPT !.registers[vx] = reg_val \div 2]
    IN  [s1 EXCEPT !.registers[15] = reg_val % 2]

ExecShiftLeft(s, vx) ==
    LET reg_val == s.registers[vx]
        s1 == [s EXCEPT !.registers[vx] = (reg_val * 2) % 256]
    IN  [s1 EXCEPT !.registers[15] = (reg_val \div 128) % 2]

\* Faulty variant of ExecSkipKey, used to test the properties:
\* the state of the key is not looked at and the skip is always taken.
ExecSkipKey_AlwaysSkips(s, vx, want) ==
    LET vx_val == s.registers[vx]
    IN  IF ~KeyTryFromOk(vx_val)
        THEN [s EXCEPT !.result = ErrResult("UnknownKey", vx_val)]
        ELSE [s EXCEPT !.pc = s.pc + 2]

\* Faulty variant of ExecSkipKey, used to test the properties:
\* the key is the low nibble of Vx and no value of Vx is refused.
ExecSkipKey_MasksKey(s, vx, want) ==
    IF s.keypad[s.registers[vx] % 16] = want THEN [s EXCEPT !.pc = s.pc + 2] ELSE s

ExecSkipKey(s, vx, want) ==
    LET vx_val == s.registers[vx]
    IN  IF ~KeyTryFromOk(vx_val)
        THEN [s EXCEPT !.result = ErrResult("UnknownKey", vx_val)]
        ELSE IF s.keypad[vx_val] = want THEN [s EXCEPT !.pc = s.pc + 2]
        ELSE s

\* Faulty variant of ExecBinDecConv, used to test the properties:
\* the tens digit is val / 10, not reduced modulo 10.
ExecBinDecConv_TensNotReduced(s, vx) ==
    LET val == s.registers[vx]
        v1 == val \div 100
        v2 == val \div 10
        v3 == val % 10
        idx == s.index_register
    IN  MemWrite(MemWrite(MemWrite(s, idx, v1), idx + 1, v2), idx + 2, v3)

ExecBinDecConv(s, vx) ==
    LET val == s.registers[vx]
        v1 == val \div 100
        v2 == (val \div 10) % 10
        v3 == val % 10
        idx == s.index_register
    IN  MemWrite(MemWrite(MemWrite(s, idx, v1), idx + 1, v2), idx + 2, v3)

\* Chip8VM::execute.  The decoder's Sub(reg1, reg2) computes reg1 - reg2
\* into reg1, the SubLeft arm.
execute(s0, instr, rand_val, overflow_checks) ==
    LET s == [s0 EXCEPT !.result = OkResult]
        op == instr.op
    IN  CASE op = "Unknown" -> ExecUnknown(s, instr.code)
          [] op = "ClearScreen" -> [s EXCEPT !.display = DisplayClear(s.display)]
          [] op = "ExitSubroutine" -> ExecExitSubroutine(s)
          [] op = "Jump" -> [s EXCEPT !.pc = instr.addr]
          [] op = "CallSubroutine" -> ExecCallSubroutine(s, instr.addr)
          [] op = "SkipValEqual" ->
                IF instr.val = s.registers[instr.reg] THEN [s EXCEPT !.pc = s.pc + 2] ELSE s
          [] op = "SkipValNotEqual" ->
                IF instr.val # s.registers[instr.reg] THEN [s EXCEPT !.pc = s.pc + 2] ELSE s
          [] op = "SkipRegEqual" ->
                IF s.registers[instr.reg1] = s.registers[instr.reg2]
                THEN [s EXCEPT !.pc = s.pc + 2] ELSE s
          [] op = "SetVal" -> [s EXCEPT !.registers[instr.reg] = instr.val]
          [] op = "AddVal" -> ExecAddVal(s, instr.reg, instr.val)
          [] op = "SetReg" -> [s EXCEPT !.registers[instr.reg1] = s.registers[instr.reg2]]
          [] op = "OR" ->
                [s EXCEPT !.registers[instr.reg1] =
                    BitOr(s.registers[instr.reg1], s.registers[instr.reg2])]
          [] op = "AND" ->
                [s EXCEPT !.registers[instr.reg1] =
                    BitAnd(s.registers[instr.reg1], s.registers[instr.reg2])]
          [] op = "XOR" ->
                [s EXCEPT !.registers[instr.reg1] =
                    BitXor(s.registers[instr.reg1], s.registers[instr.reg2])]
          [] op = "Add" -> ExecAdd(s, instr.reg1, instr.reg2)
          [] op = "Sub" -> ExecSubLeft(s, instr.reg1, instr.reg2)
          [] op = "SubLeft" -> ExecSubLeft(s, instr.reg1, instr.reg2)
          [] op = "SubRight" -> ExecSubRight(s, instr.reg1, instr.reg2)
          [] op = "ShiftRight" -> ExecShiftRight(s, instr.reg1)
          [] op = "ShiftLeft" -> ExecShiftLeft(s, instr.reg1)
          [] op = "SkipRegNotEqual" ->
                IF s.registers[instr.reg1] # s.registers[instr.reg2]
                THEN [s EXCEPT !.pc = s.pc + 2] ELSE s
          [] op = "SetIndex" -> [s EXCEPT !.index_register = instr.val]
          [] op = "JumpOffset" -> [s EXCEPT !.pc = (s.registers[0] + instr.val) % 4096]
          [] op = "Random" -> [s EXCEPT !.registers[instr.reg] = BitAnd(rand_val, instr.val)]
          [] op = "Display" ->
                DrawSprite(s, s.registers[instr.reg1], s.registers[instr.reg2],
                           instr.height, 0, 0, overflow_checks)
          [] op = "SkipIfPressed" -> ExecSkipKey(s, instr.reg, "Pressed")
          [] op = "SkipNotPressed" -> ExecSkipKey(s, instr.reg, "NotPressed")
          [] op = "GetDelayTimer" -> [s EXCEPT !.registers[instr.reg] = s.delay_timer]
          [] op = "SetDelayTimer" -> [s EXCEPT !.delay_timer = s.registers[instr.reg]]
          [] op = "SetSoundTimer" -> [s EXCEPT !.sound_timer = s.registers[instr.reg]]
          [] op = "AddToIndex" ->
                [s EXCEPT !.index_register = s.index_register + s.registers[instr.reg]]
          [] op = "GetKey" -> ExecGetKey(s, instr.reg)
          [] op = "FontChar" -> s
          [] op = "BinDecConv" -> ExecBinDecConv(s, instr.reg)
          [] op = "StoreMem" -> StoreLoop(s, 0, instr.to_reg, s.index_register)
          [] op = "LoadMem" -> LoadLoop(s, 0, instr.to_reg, s.index_register)

\* Faulty variant of FetchWord, used to test the properties:
\* the two bytes are combined low byte first.
FetchWord_LittleEndian(mem, a) == mem[a + 1] * 256 + mem[a]

\* The 16-bit word run_cycle fetches at address a: ((op1 as u16) << 8) | op2.
FetchWord(mem, a) == mem[a] * 256 + mem[a + 1]

\* Faulty variant of run_cycle, used to test the properties:
\* every cycle that executes an instruction first counts the timers down.
run_cycle_DrivesClock(s, rand_val, overflow_checks) ==
    IF is_waiting(s.wait_state) THEN [s EXCEPT !.result = OkResult]
    ELSE IF ~InMemory(s.pc) \/ ~InMemory(s.pc + 1) THEN Panic(s)
    ELSE LET op == FetchWord(s.memory, s.pc)
             s1 == [s EXCEPT !.pc = s.pc + 2,
                             !.delay_timer = IF @ = 0 THEN 0 ELSE @ - 1,
                             !.sound_timer = IF @ = 0 THEN 0 ELSE @ - 1]
         IN  execute(s1, decode(op), rand_val, overflow_checks)

\* Chip8VM::run_cycle
run_cycle(s, rand_val, overflow_checks) ==
    IF is_waiting(s.wait_state) THEN [s EXCEPT !.result = OkResult]
    ELSE IF ~InMemory(s.pc) \/ ~InMemory(s.pc + 1) THEN Panic(s)
    ELSE LET op == FetchWord(s.memory, s.pc)
             s1 == [s EXCEPT !.pc = s.pc + 2]
         IN  execute(s1, decode(op), rand_val, overflow_checks)

\* Faulty variant of tick_timers, used to test the properties:
\* the timers are decremented without the test for 0.
tick_timers_Wrapping(s) ==
    [s EXCEPT !.delay_timer = (s.delay_timer - 1) % 256,
              !.sound_timer = (s.sound_timer - 1) % 256,
              !.result = OkResult]

\* Chip8VM::tick_timers
tick_timers(s) ==
    [s EXCEPT !.delay_timer = IF s.delay_timer = 0 THEN 0 ELSE s.delay_timer - 1,
              !.sound_timer = IF s.sound_timer = 0 THEN 0 ELSE s.sound_timer - 1,
              !.result = OkResult]

\* Faulty variant of handle_key, used to test the properties:
\* a press ends the wait at once, without waiting for a release.
handle_key_PressEndsWait(s0, key_code, is_pressed) ==
    LET s == [s0 EXCEPT !.result = OkResult]
    IN  IF KeyTryFromOk(key_code)
        THEN LET s1 == [s EXCEPT !.keypad[key_code] =
                            IF is_pressed THEN "Pressed" ELSE "NotPressed"]
                 ws == s1.wait_state
             IN  CASE ws.tag = "WaitingForPress" ->
                        [s1 EXCEPT !.registers[ws.val] = key_code,
                                   !.wait_state = NotWaiting, !.pc = s1.pc + 2]
                   [] OTHER -> s1
        ELSE s

\* Faulty variant of handle_key, used to test the properties:
\* a release does not clear the state of the key.
handle_key_ReleaseKeepsPressed(s0, key_code, is_pressed) ==
    LET s == [s0 EXCEPT !.result = OkResult]
    IN  IF KeyTryFromOk(key_code)
        THEN LET s1 == [s EXCEPT !.keypad[key_code] =
                            IF is_pressed THEN "Pressed" ELSE @]
                 ws == s1.wait_state
             IN  CASE ws.tag = "WaitingForPress" ->
                        [s1 EXCEPT !.registers[ws.val] = key_code,
                                   !.wait_state = WaitingForRelease(key_code)]
                   [] ws.tag = "WaitingForRelease" ->
                        IF key_code = ws.val
                        THEN [s1 EXCEPT !.wait_state = NotWaiting, !.pc = s1.pc + 2]
                        ELSE s1
                   [] OTHER -> s1
        ELSE s

\* Faulty variant of handle_key, used to test the properties:
\* in WaitingForRelease only an event with is_pressed set ends the wait.
handle_key_ReleaseNeverEndsWait(s0, key_code, is_pressed) ==
    LET s == [s0 EXCEPT !.result = OkResult]
    IN  IF KeyTryFromOk(key_code)
        THEN LET s1 == [s EXCEPT !.keypad[key_code] =
                            IF is_pressed THEN "Pressed" ELSE "NotPressed"]
                 ws == s1.wait_state
             IN  CASE ws.tag = "WaitingForPress" ->
                        [s1 EXCEPT !.registers[ws.val] = key_code,
                                   !.wait_state = WaitingForRelease(key_code)]
                   [] ws.tag = "WaitingForRelease" ->
                        IF key_code = ws.val /\ is_pressed
                        THEN [s1 EXCEPT !.wait_state = NotWaiting, !.pc = s1.pc + 2]
                        ELSE s1
                   [] OTHER -> s1
        ELSE s

\* Chip8VM::handle_key
handle_key(s0, key_code, is_pressed) ==
    LET s == [s0 EXCEPT !.result = OkResult]
    IN  IF KeyTryFromOk(key_code)
        THEN LET s1 == [s EXCEPT !.keypad[key_code] =
                            IF is_pressed THEN "Pressed" ELSE "NotPressed"]
                 ws == s1.wait_state
             IN  CASE ws.tag = "WaitingForPress" ->
                        [s1 EXCEPT !.registers[ws.val] = key_code,
                                   !.wait_state = WaitingForRelease(key_code)]
                   [] ws.tag = "WaitingForRelease" ->
                        IF key_code = ws.val
                        THEN [s1 EXCEPT !.wait_state = NotWaiting, !.pc = s1.pc + 2]
                        ELSE s1
                   [] OTHER -> s1
        ELSE s

\* Chip8VM::load_rom on what fs::read returned: the bytes are written one
\* by one from ROM_START on, and the first write past the array panics.
load_rom(s, read) ==
    IF ~read.ok THEN [s EXCEPT !.result = ErrResult("RomLoadFailure", 0)]
    ELSE LET n == Len(read.bytes)
             fits == ROM_START + n <= RAM_SIZE
             s1 == [s EXCEPT !.memory =
                       [a \in 0..(RAM_SIZE - 1) |->
                           IF a >= ROM_START /\ a < ROM_START + n
                           THEN read.bytes[a - ROM_START + 1] ELSE s.memory[a]],
                             !.result = OkResult]
         IN  IF fits THEN s1 ELSE Panic(s1)

----------------------------------------------------------------------------
(* The driver: it constructs the VM, loads one ROM, then calls run_cycle,  *)
(* tick_timers and handle_key in any order.                                *)

\* The 16-bit word with hex digits a b c d.
W(a, b, c, d) == a * 4096 + b * 256 + c * 16 + d

\* A ROM file: the big-endian bytes of a sequence of instruction words.
RomBytes(words) ==
    [i \in 1..(2 * Len(words)) |->
        IF i % 2 = 1 THEN words[(i + 1) \div 2] \div 256 ELSE words[i \div 2] % 256]

\* The programs the driver may load (addresses from 0x200 on).
Roms == {
    \* 200: GetKey V1; 202: SetVal V1 5; 204: Jump 200
    <<W(15,1,0,10), W(6,1,0,5), W(1,2,0,0)>>,
    \* 200: SetVal V3 9; 202: GetKey V3; 204: Jump 202
    <<W(6,3,0,9), W(15,3,0,10), W(1,2,0,2)>>,
    \* 200: Call 206; 202: Jump 202; 206: Call 20A; 208: Exit;
    \* 20A: GetKey V2; 20C: Exit
    <<W(2,2,0,6), W(1,2,0,2), 0, W(2,2,0,10), W(0,0,14,14), W(15,2,0,10), W(0,0,14,14)>>,
    \* 200: Exit (on the empty stack)
    <<W(0,0,14,14)>>,
    \* 200: Call 200 (unbounded recursion)
    <<W(2,2,0,0)>>,
    \* 200: SetVal V1 2, then zeros (unknown instructions)
    <<W(6,1,0,2)>>,
    \* 200: SetVal V1 3; 202: SetDelayTimer V1; 204: SetVal V1 2;
    \* 206: SetSoundTimer V1; 208: GetKey V2
    <<W(6,1,0,3), W(15,1,1,5), W(6,1,0,2), W(15,1,1,8), W(15,2,0,10)>>,
    \* 200: SetIndex 202; 202: SetVal V0 4; 204: Display V0 V1 2;
    \* 206: SetVal V0 0; 208: Display V0 V1 2
    \* (the sprite is the ROM's own bytes 60 04, drawn at (4, 0) then (0, 0))
    <<W(10,2,0,2), W(6,0,0,4), W(13,0,1,2), W(6,0,0,0), W(13,0,1,2)>>,
    \* 200: Display V0 V1 1; 202: Display V0 V1 1
    \* (the byte at address 0, drawn twice at (0, 0))
    <<W(13,0,1,1), W(13,0,1,1)>>,
    \* 200: SetVal V0 11; 202: SetVal V1 22; 204: SetIndex 300;
    \* 206: StoreMem V1; 208: SetVal V0 33; 20A: LoadMem V1   (hex values)
    <<W(6,0,1,1), W(6,1,2,2), W(10,3,0,0), W(15,1,5,5), W(6,0,3,3), W(15,1,6,5)>>,
    \* 200: SetVal V0 AA; 202: SetVal VF BB; 204: SetIndex FF0;
    \* 206: StoreMem VF; 208: SetVal VF 07; 20A: LoadMem VF
    \* (all sixteen registers, up to the last byte of memory)
    <<W(6,0,10,10), W(6,15,11,11), W(10,15,15,0), W(15,15,5,5), W(6,15,0,7),
      W(15,15,6,5)>>,
    \* 200: SetVal V0 05; 202: StoreMem V0; 204: SetVal V0 FF; 206: LoadMem V0
    \* (one register, at I = 0)
    <<W(6,0,0,5), W(15,0,5,5), W(6,0,15,15), W(15,0,6,5)>>,
    \* 200: F0FF (no instruction); 202: SetVal V1 5
    <<W(15,0,15,15), W(6,1,0,5)>>,
    \* 200: SetVal V1 20; 202: SkipIfPressed V1; 204: SkipNotPressed V1
    \* (hex 20 is no key code)
    <<W(6,1,2,0), W(14,1,9,14), W(14,1,10,1)>>,
    \* 200: SetVal V1 2; 202: FontChar V1
    <<W(6,1,0,2), W(15,1,2,9)>>,
    \* 200: SetVal V0 3E; 202: Display V0 V1 1
    \* (the byte F0 at address 0, drawn at (62, 0), across the right edge)
    <<W(6,0,3,14), W(13,0,1,1)>>,
    \* 200: SetIndex 001; 202: SetVal V0 FA; 204: Display V0 V1 1
    \* (the byte 00 at address 1, drawn at (250, 0): 250 + 6 exceeds a byte)
    <<W(10,0,0,1), W(6,0,15,10), W(13,0,1,1)>>,
    \* 200: SetVal V0 03; 202: SetVal V1 0A; 204: 8017 (X = 0, Y = 1)
    <<W(6,0,0,3), W(6,1,0,10), W(8,0,1,7)>>,
    \* 200: SetVal V1 5; 202: SkipValEqual V1 5; 206: SkipValEqual V1 6;
    \* 208: SkipValNotEqual V1 5; 20A: SkipValNotEqual V1 6
    <<W(6,1,0,5), W(3,1,0,5), 0, W(3,1,0,6), W(4,1,0,5), W(4,1,0,6)>>,
    \* 200: SetVal V1 5; 202: SkipRegEqual V1 V0; 204: SkipRegEqual V1 V1;
    \* 208: SkipRegNotEqual V1 V1; 20A: SkipRegNotEqual V1 V0
    <<W(6,1,0,5), W(5,1,0,0), W(5,1,1,0), 0, W(9,1,1,0), W(9,1,0,0)>>,
    \* 200: SetVal V1 1; 202: SkipIfPressed V1; 204: SkipNotPressed V1;
    \* 206: SkipNotPressed V1; 208: SkipIfPressed V1
    <<W(6,1,0,1), W(14,1,9,14), W(14,1,10,1), W(14,1,10,1), W(14,1,9,14)>>,
    \* 200: SetVal V1 3; 202: SetDelayTimer V1; 204: GetDelayTimer V2;
    \* 206: SetSoundTimer V1; 208: GetDelayTimer V2
    <<W(6,1,0,3), W(15,1,1,5), W(15,2,0,7), W(15,1,1,8), W(15,2,0,7)>>,
    \* 200: SetIndex FFF; 202: SetVal V0 1; 204: AddToIndex V0;
    \* 206: BinDecConv V0
    <<W(10,15,15,15), W(6,0,0,1), W(15,0,1,14), W(15,0,3,3)>>,
    \* 200: Jump FFE (the last two bytes of memory, both 0)
    <<W(1,15,15,14)>>
}

\* What fs::read may return for the ROM path.
\* A file of n bytes that are no program: byte i is i mod 256.
FillerBytes(n) == [i \in 1..n |-> (i - 1) % 256]

\* What fs::read may return for the ROM path: an error, one of the programs,
\* a file that fills memory from ROM_START to its last byte, and a file one
\* byte longer.
Reads == {[ok |-> FALSE, bytes |-> <<>>]}
         \cup {[ok |-> TRUE, bytes |-> RomBytes(r)] : r \in Roms}
         \cup {[ok |-> TRUE, bytes |-> FillerBytes(n)] :
                   n \in {RAM_SIZE - ROM_START, RAM_SIZE - ROM_START + 1}}

\* The key codes the driver delivers: two keys, the last key, and a code
\* that is no key.
KeyCodes == {1, 15, 16}

\* Bytes rand::thread_rng() may draw.
RandBytes == {0, 165, 255}

\* The instruction at pc.
CurInstr ==
    IF InMemory(pc) /\ InMemory(pc + 1) THEN decode(FetchWord(memory, pc)) ELSE Unknown(0)

\* No StoreMem has been executed, or memory was written since.
NoStore == [ok |-> FALSE, idx |-> 0, k |-> 0, vals |-> VMNew.registers]

\* No SetDelayTimer has been executed.
NoDelaySet == [set |-> FALSE, val |-> 0, ticks |-> 0]

\* handle_key has not been called for any key.
NoKeyEvents == [k \in 0..(NUM_KEYS - 1) |-> "none"]

Call(op, code, pressed) == [op |-> op, code |-> code, pressed |-> pressed]

\* The VM's fields and the call's outcome become those of record s.
Commit(s) ==
    /\ memory' = s.memory
    /\ display' = s.display
    /\ registers' = s.registers
    /\ pc' = s.pc
    /\ stack' = s.stack
    /\ keypad' = s.keypad
    /\ wait_state' = s.wait_state
    /\ index_register' = s.index_register
    /\ delay_timer' = s.delay_timer
    /\ sound_timer' = s.sound_timer
    /\ result' = s.result
    /\ panicked' = s.panicked

Init ==
    /\ memory = VMNew.memory
    /\ display = VMNew.display
    /\ registers = VMNew.registers
    /\ pc = VMNew.pc
    /\ stack = VMNew.stack
    /\ keypad = VMNew.keypad
    /\ wait_state = VMNew.wait_state
    /\ index_register = VMNew.index_register
    /\ delay_timer = VMNew.delay_timer
    /\ sound_timer = VMNew.sound_timer
    /\ result = OkResult
    /\ panicked = FALSE
    /\ last_call = Call("new", 0, FALSE)
    /\ wait_event = Call("none", 0, FALSE)
    /\ cycles = 0
    /\ stored = NoStore
    /\ delay_set = NoDelaySet
    /\ key_events = NoKeyEvents
    /\ phase = "new"

\* vm.load_rom(path), the file read being one of `reads`.
LoadRomFrom(reads) ==
    /\ phase = "new"
    /\ \E read \in reads :
        /\ Commit(load_rom(VM, read))
        /\ last_call' = Call("load_rom", Len(read.bytes), read.ok)
    /\ phase' = IF result' = OkResult THEN "running" ELSE "failed"
    /\ UNCHANGED <<wait_event, cycles, stored, delay_set, key_events>>

LoadRom == LoadRomFrom(Reads)

\* vm.run_cycle(), as long as fewer than max_cycles calls have fetched an
\* instruction.
RunCycleUpTo(max_cycles) ==
    /\ phase = "running"
    /\ ~panicked
    /\ is_waiting(wait_state) \/ cycles < max_cycles
    /\ \E rand_val \in (IF CurInstr.op = "Random" THEN RandBytes ELSE {0}),
          overflow_checks \in (IF CurInstr.op = "Display" THEN BOOLEAN ELSE {FALSE}) :
        Commit(run_cycle(VM, rand_val, overflow_checks))
    /\ last_call' = Call("run_cycle", 0, FALSE)
    /\ wait_event' = IF wait_state.tag = "NotWaiting" /\ wait_state'.tag # "NotWaiting"
                     THEN Call("none", 0, FALSE) ELSE wait_event
    /\ cycles' = IF is_waiting(wait_state) THEN cycles ELSE cycles + 1
    /\ stored' = IF ~is_waiting(wait_state) /\ CurInstr.op = "StoreMem" /\ ~panicked'
                 THEN [ok |-> TRUE, idx |-> index_register, k |-> CurInstr.to_reg,
                       vals |-> registers]
                 ELSE IF memory' # memory THEN [stored EXCEPT !.ok = FALSE]
                 ELSE stored
    /\ delay_set' = IF ~is_waiting(wait_state) /\ CurInstr.op = "SetDelayTimer"
                    THEN [set |-> TRUE, val |-> registers[CurInstr.reg], ticks |-> 0]
                    ELSE delay_set
    /\ UNCHANGED <<key_events, phase>>

RunCycle == RunCycleUpTo(MaxCycles)

TickTimers ==
    /\ phase = "running"
    /\ ~panicked
    /\ Commit(tick_timers(VM))
    /\ last_call' = Call("tick_timers", 0, FALSE)
    /\ delay_set' = IF delay_set.set /\ delay_set.ticks < delay_set.val
                    THEN [delay_set EXCEPT !.ticks = @ + 1] ELSE delay_set
    /\ UNCHANGED <<wait_event, cycles, stored, key_events, phase>>

HandleKey ==
    /\ phase = "running"
    /\ ~panicked
    /\ \E key_code \in KeyCodes, is_pressed \in BOOLEAN :
        /\ Commit(handle_key(VM, key_code, is_pressed))
        /\ last_call' = Call("handle_key", key_code, is_pressed)
    /\ wait_event' = IF wait_state.tag = "WaitingForPress" /\ wait_state' # wait_state
                     THEN last_call' ELSE wait_event
    /\ key_events' = IF last_call'.code \in 0..(NUM_KEYS - 1)
                     THEN [key_events EXCEPT ![last_call'.code] =
                              IF last_call'.pressed THEN "press" ELSE "release"]
                     ELSE key_events
    /\ UNCHANGED <<cycles, stored, delay_set, phase>>

Next == LoadRom \/ RunCycle \/ TickTimers \/ HandleKey

Spec == Init /\ [][Next]_vars

\* The driver delivers the press of a key while the VM waits for a press,
\* and the release of the key the VM waits for the release of.
DeliverPress ==
    /\ wait_state.tag = "WaitingForPress"
    /\ HandleKey
    /\ last_call'.pressed /\ last_call'.code \in 0..(NUM_KEYS - 1)

DeliverRelease ==
    /\ wait_state.tag = "WaitingForRelease"
    /\ HandleKey
    /\ last_call'.code = wait_state.val /\ ~last_call'.pressed

\* The driver of Spec, delivering a press and then the release of the same
\* key whenever the VM waits for a key.
SpecKeysDelivered ==
    Init /\ [][Next]_vars /\ WF_vars(DeliverPress) /\ WF_vars(DeliverRelease)

----------------------------------------------------------------------------
(* The stack on its own, as memory.rs's test_stack drives it: a Stack of   *)
(* capacity max_size, pushed to and popped from in any order.              *)

\* The u16 values pushed.
StackValues == {1, 2, 65535}

InitStack ==
    /\ memory = VMNew.memory
    /\ display = VMNew.display
    /\ registers = VMNew.registers
    /\ pc = VMNew.pc
    /\ \E max_size \in 1..MaxStackCap : stack = StackNew(max_size)
    /\ keypad = VMNew.keypad
    /\ wait_state = VMNew.wait_state
    /\ index_register = VMNew.index_register
    /\ delay_timer = VMNew.delay_timer
    /\ sound_timer = VMNew.sound_timer
    /\ result = OkResult
    /\ panicked = FALSE
    /\ last_call = Call("new", 0, FALSE)
    /\ wait_event = Call("none", 0, FALSE)
    /\ cycles = 0
    /\ stored = NoStore
    /\ delay_set = NoDelaySet
    /\ key_events = NoKeyEvents
    /\ phase = "stack_test"

StackPushCall ==
    /\ phase = "stack_test"
    /\ ~panicked
    /\ \E value \in StackValues :
        /\ IF StackPushPanics(stack)
           THEN stack' = stack /\ result' = PanicResult /\ panicked' = TRUE
           ELSE stack' = StackPush(stack, value) /\ result' = OkResult /\ panicked' = FALSE
        /\ last_call' = Call("push", value, FALSE)
    /\ UNCHANGED <<memory, display, registers, pc, keypad, wait_state, index_register,
                   delay_timer, sound_timer, wait_event, cycles, stored, delay_set, key_events, phase>>

StackPopCall ==
    /\ phase = "stack_test"
    /\ ~panicked
    /\ IF StackPopPanics(stack)
       THEN stack' = stack /\ result' = PanicResult /\ panicked' = TRUE
       ELSE /\ stack' = StackPop(stack).stack
            /\ result' = [tag |-> "Ok", val |-> StackPop(stack).value]
            /\ panicked' = FALSE
    /\ last_call' = Call("pop", 0, FALSE)
    /\ UNCHANGED <<memory, display, registers, pc, keypad, wait_state, index_register,
                   delay_timer, sound_timer, wait_event, cycles, stored, delay_set, key_events, phase>>

NextStack == StackPushCall \/ StackPopCall

SpecStack == InitStack /\ [][NextStack]_vars

----------------------------------------------------------------------------
(* The display on its own, as display.rs's test_display drives it: set,    *)
(* get and clear on a new Display, in any order.                           *)

\* Coordinates handed to set and get: inside the grid, on its last column
\* and row, and at or beyond WIDTH and HEIGHT.
DisplayXs == {2, 63, 64, 66}
DisplayYs == {5, 31, 32}

InitDisplay ==
    /\ memory = VMNew.memory
    /\ display = DisplayNew
    /\ registers = VMNew.registers
    /\ pc = VMNew.pc
    /\ stack = VMNew.stack
    /\ keypad = VMNew.keypad
    /\ wait_state = VMNew.wait_state
    /\ index_register = VMNew.index_register
    /\ delay_timer = VMNew.delay_timer
    /\ sound_timer = VMNew.sound_timer
    /\ result = OkResult
    /\ panicked = FALSE
    /\ last_call = Call("new", <<0, 0>>, FALSE)
    /\ wait_event = Call("none", 0, FALSE)
    /\ cycles = 0
    /\ stored = NoStore
    /\ delay_set = NoDelaySet
    /\ key_events = NoKeyEvents
    /\ phase = "display_test"

\* display.set(x, y, val)
DisplaySetCall ==
    /\ phase = "display_test"
    /\ \E x \in DisplayXs, y \in DisplayYs, val \in BOOLEAN :
        /\ display' = DisplaySet(display, x, y, val)
        /\ last_call' = Call("set", <<x, y>>, val)
    /\ result' = OkResult
    /\ UNCHANGED <<memory, registers, pc, stack, keypad, wait_state, index_register,
                   delay_timer, sound_timer, panicked, wait_event, cycles, stored, delay_set, key_events, phase>>

\* display.get(x, y): the result is Ok(pixel), the pixel written as 1 or 0,
\* or Err("pixel out of range").
DisplayGetCall ==
    /\ phase = "display_test"
    /\ \E x \in DisplayXs, y \in DisplayYs :
        /\ result' = IF DisplayGetOk(x, y)
                     THEN [tag |-> "Ok", val |-> IF DisplayGet(display, x, y) THEN 1 ELSE 0]
                     ELSE ErrResult("pixel out of range", 0)
        /\ last_call' = Call("get", <<x, y>>, FALSE)
    /\ UNCHANGED <<memory, display, registers, pc, stack, keypad, wait_state,
                   index_register, delay_timer, sound_timer, panicked, wait_event,
                   cycles, stored, delay_set, key_events, phase>>

\* display.clear()
DisplayClearCall ==
    /\ phase = "display_test"
    /\ display' = DisplayClear(display)
    /\ last_call' = Call("clear", <<0, 0>>, FALSE)
    /\ result' = OkResult
    /\ UNCHANGED <<memory, registers, pc, stack, keypad, wait_state, index_register,
                   delay_timer, sound_timer, panicked, wait_event, cycles, stored, delay_set, key_events, phase>>

NextDisplay == DisplaySetCall \/ DisplayGetCall \/ DisplayClearCall

SpecDisplay == InitDisplay /\ [][NextDisplay]_vars

----------------------------------------------------------------------------
(* execute on its own, as vm.rs's test_registers_8bits drives it: one      *)
(* instruction handed to vm.execute on a VM whose registers V0, V6 and VF  *)
(* hold values set before.                                                 *)

\* The registers the instructions name: the two of the test, and the flag
\* register.
ExecRegs == {0, 6, 15}

\* Register values and immediate operands: the ends of the byte range, the
\* sign bit, the test's 10, and 254 (255 shifted left).
ExecVals == {0, 1, 10, 128, 254, 255}

RegRegInstr(op, vx, vy) == [op |-> op, reg1 |-> vx, reg2 |-> vy]
RegValInstr(op, vx, val) == [op |-> op, reg |-> vx, val |-> val]

\* The instructions handed to execute.
ExecInstrs ==
    {RegRegInstr(op, vx, vy) :
        op \in {"Add", "SubLeft", "SubRight", "ShiftRight", "ShiftLeft"},
        vx \in ExecRegs, vy \in ExecRegs}
    \cup {RegValInstr(op, vx, val) :
            op \in {"AddVal", "SetVal"}, vx \in ExecRegs, val \in ExecVals}

InitExec ==
    /\ memory = VMNew.memory
    /\ display = VMNew.display
    /\ \E v0 \in ExecVals, v6 \in ExecVals, vf \in ExecVals :
        registers = [VMNew.registers EXCEPT ![0] = v0, ![6] = v6, ![15] = vf]
    /\ pc = VMNew.pc
    /\ stack = VMNew.stack
    /\ keypad = VMNew.keypad
    /\ wait_state = VMNew.wait_state
    /\ index_register = VMNew.index_register
    /\ delay_timer = VMNew.delay_timer
    /\ sound_timer = VMNew.sound_timer
    /\ result = OkResult
    /\ panicked = FALSE
    /\ last_call = Call("new", Unknown(0), FALSE)
    /\ wait_event = Call("none", 0, FALSE)
    /\ cycles = 0
    /\ stored = NoStore
    /\ delay_set = NoDelaySet
    /\ key_events = NoKeyEvents
    /\ phase = "execute_test"

\* vm.execute(instr)
ExecuteCall ==
    /\ phase = "execute_test"
    /\ \E instr \in ExecInstrs :
        /\ Commit(execute(VM, instr, 0, FALSE))
        /\ last_call' = Call("execute", instr, FALSE)
    /\ phase' = "executed"
    /\ UNCHANGED <<wait_event, cycles, stored, delay_set, key_events>>

NextExec == ExecuteCall

SpecExec == InitExec /\ [][NextExec]_vars

----------------------------------------------------------------------------
(* Instruction::decode on its own, as instructions.rs's decode_tests drive *)
(* it: one 16-bit word is decoded.                                         *)

\* Every u16.
Words == 0..65535

InitDecode ==
    /\ memory = VMNew.memory
    /\ display = VMNew.display
    /\ registers = VMNew.registers
    /\ pc = VMNew.pc
    /\ stack = VMNew.stack
    /\ keypad = VMNew.keypad
    /\ wait_state = VMNew.wait_state
    /\ index_register = VMNew.index_register
    /\ delay_timer = VMNew.delay_timer
    /\ sound_timer = VMNew.sound_timer
    /\ result = OkResult
    /\ panicked = FALSE
    /\ last_call = Call("new", 0, FALSE)
    /\ wait_event = Call("none", 0, FALSE)
    /\ cycles = 0
    /\ stored = NoStore
    /\ delay_set = NoDelaySet
    /\ key_events = NoKeyEvents
    /\ phase = "decode_test"

\* Instruction::decode(word): the result is the Instruction.
DecodeCall ==
    /\ phase = "decode_test"
    /\ \E word \in Words :
        /\ result' = decode(word)
        /\ last_call' = Call("decode", word, FALSE)
    /\ phase' = "decoded"
    /\ UNCHANGED <<memory, display, registers, pc, stack, keypad, wait_state,
                   index_register, delay_timer, sound_timer, panicked, wait_event,
                   cycles, stored, delay_set, key_events>>

NextDecode == DecodeCall

SpecDecode == InitDecode /\ [][NextDecode]_vars

----------------------------------------------------------------------------
(* The VM running a program that calls itself without end: the driver      *)
(* loads it and calls run_cycle until the stack of MAX_STACK_SIZE return   *)
(* addresses is full and one more call is made.                            *)

\* 200: Call 200
RecursiveRom == <<W(2,2,0,0)>>

LoadRecursiveRom == LoadRomFrom({[ok |-> TRUE, bytes |-> RomBytes(RecursiveRom)]})

RunRecursiveCycle == RunCycleUpTo(MAX_STACK_SIZE + 1)

NextRecursion == LoadRecursiveRom \/ RunRecursiveCycle

SpecRecursion == Init /\ [][NextRecursion]_vars

----------------------------------------------------------------------------
(* BinDecConv on its own, the way vm.rs's tests drive the VM: one          *)
(* BinDecConv handed to vm.execute on a VM with one register and the index *)
(* register set before.                                                    *)

\* Values of I: the font's first byte, an address past the programs, the
\* last address that leaves room for three bytes, and the one after it.
BinDecIndexes == {0, 768, RAM_SIZE - 3, RAM_SIZE - 2}

InitBinDec ==
    /\ memory = VMNew.memory
    /\ display = VMNew.display
    /\ \E vx \in ExecRegs, val \in U8 :
        registers = [VMNew.registers EXCEPT ![vx] = val]
    /\ pc = VMNew.pc
    /\ stack = VMNew.stack
    /\ keypad = VMNew.keypad
    /\ wait_state = VMNew.wait_state
    /\ index_register \in BinDecIndexes
    /\ delay_timer = VMNew.delay_timer
    /\ sound_timer = VMNew.sound_timer
    /\ result = OkResult
    /\ panicked = FALSE
    /\ last_call = Call("new", Unknown(0), FALSE)
    /\ wait_event = Call("none", 0, FALSE)
    /\ cycles = 0
    /\ stored = NoStore
    /\ delay_set = NoDelaySet
    /\ key_events = NoKeyEvents
    /\ phase = "bindec_test"

\* vm.execute(BinDecConv(vx))
BinDecCall ==
    /\ phase = "bindec_test"
    /\ \E vx \in ExecRegs :
        LET instr == [op |-> "BinDecConv", reg |-> vx]
        IN  /\ Commit(execute(VM, instr, 0, FALSE))
            /\ last_call' = Call("execute", instr, FALSE)
    /\ phase' = "executed"
    /\ UNCHANGED <<wait_event, cycles, stored, delay_set, key_events>>

NextBinDec == BinDecCall

SpecBinDec == InitBinDec /\ [][NextBinDec]_vars

----------------------------------------------------------------------------
(* Properties *)

InWait == wait_state.tag # "NotWaiting"

KeyEvent(code, pressed) == Call("handle_key", code, pressed)

\* A step in which the driver called `op`.
Called(op) == last_call'.op = op

\* C1: once GetKey has started a wait, run_cycle executes nothing, and the
\* wait advances only by a press handle_key(c, true) (to WaitingForRelease(c))
\* followed by the release handle_key(c, false) of the same key (to
\* NotWaiting); no other key event changes the wait state.
C1_WaitEndsOnlyByPressThenRelease ==
    [][ /\ (InWait /\ Called("run_cycle")) => (UNCHANGED vm_vars /\ cycles' = cycles)
        /\ (wait_state.tag = "WaitingForPress" /\ wait_state' # wait_state)
              => /\ wait_state'.tag = "WaitingForRelease"
                 /\ last_call' = KeyEvent(wait_state'.val, TRUE)
        /\ (wait_state.tag = "WaitingForRelease" /\ wait_state' # wait_state)
              => /\ wait_state' = NotWaiting
                 /\ last_call' = KeyEvent(wait_state.val, FALSE)
                 /\ wait_event = KeyEvent(wait_state.val, TRUE)
      ]_vars

\* C2: a GetKey(x) fetched from address A is retired exactly once: the wait
\* starts with PC = A, PC stays A during the whole wait, and when the wait
\* ends through the press then the release of key c, Vx = c and PC = A + 2.
C2_GetKeyRetiredOnce ==
    [][ /\ (~InWait /\ InWait')
              => /\ Called("run_cycle")
                 /\ CurInstr.op = "GetKey"
                 /\ wait_state' = WaitingForPress(CurInstr.reg)
                 /\ pc' = pc
                 /\ cycles' = cycles + 1
        /\ (InWait /\ InWait')
              => /\ pc' = pc
                 /\ memory' = memory
                 /\ cycles' = cycles
                 /\ CurInstr.op = "GetKey"
        /\ (wait_state.tag = "WaitingForPress" /\ Called("handle_key")
            /\ last_call'.pressed /\ last_call'.code \in 0..15)
              => registers'[CurInstr.reg] = last_call'.code
        /\ (InWait /\ ~InWait' /\ wait_event.pressed
            /\ last_call' = KeyEvent(wait_event.code, FALSE))
              => /\ CurInstr.op = "GetKey"
                 /\ registers'[CurInstr.reg] = wait_event.code
                 /\ pc' = pc + 2
                 /\ cycles' = cycles
      ]_vars

\* C2 witness: the wait of the GetKey V1 at 0x200 has ended by the press and
\* the release of key 15.
C2_Witness ==
    /\ ~InWait
    /\ wait_event = KeyEvent(15, TRUE)
    /\ last_call = KeyEvent(15, FALSE)
    /\ registers[1] = 15
    /\ pc = ROM_START + 2
    /\ cycles = 1

\* C3: in either waiting state run_cycle returns Ok and changes no field of
\* the VM.
C3_WaitingCycleIsNoOp ==
    [][ (InWait /\ Called("run_cycle"))
            => (UNCHANGED vm_vars /\ result' = OkResult /\ ~panicked') ]_vars

\* C3 witness: run_cycle was called in WaitingForRelease(15) with both timers
\* running and key 15 held down.
C3_Witness ==
    /\ last_call.op = "run_cycle"
    /\ wait_state = WaitingForRelease(15)
    /\ delay_timer = 3
    /\ sound_timer = 2
    /\ keypad[15] = "Pressed"

\* C4: in WaitingForPress(x) only a press handle_key(c, true) of a valid key
\* moves to WaitingForRelease(c) with Vx = c; a release handle_key(c, false)
\* leaves the wait state and Vx unchanged.
C4_OnlyPressLeavesWaitingForPress ==
    [][ (wait_state.tag = "WaitingForPress" /\ Called("handle_key"))
            => IF last_call'.pressed /\ last_call'.code \in 0..15
               THEN /\ wait_state' = WaitingForRelease(last_call'.code)
                    /\ registers'[wait_state.val] = last_call'.code
               ELSE /\ wait_state' = wait_state
                    /\ registers'[wait_state.val] = registers[wait_state.val]
      ]_vars

\* C5: in WaitingForRelease(c) only the release handle_key(c, false) moves to
\* NotWaiting and adds 2 to PC; every other key event leaves the wait state
\* and PC unchanged.
C5_OnlyReleaseLeavesWaitingForRelease ==
    [][ (wait_state.tag = "WaitingForRelease" /\ Called("handle_key"))
            => IF last_call' = KeyEvent(wait_state.val, FALSE)
               THEN wait_state' = NotWaiting /\ pc' = pc + 2
               ELSE wait_state' = wait_state /\ pc' = pc
      ]_vars

\* C6: handle_key with a code outside 0..15 changes no field of the VM, in
\* any wait state.
C6_InvalidKeyIgnored ==
    [][ (Called("handle_key") /\ last_call'.code \notin 0..15)
            => UNCHANGED vm_vars ]_vars

\* C6 witness: an invalid code was delivered while waiting for a press.
C6_Witness ==
    /\ last_call.op = "handle_key"
    /\ last_call.code = 16
    /\ wait_state.tag = "WaitingForPress"

\* C7: tick_timers sets each timer to max(timer - 1, 0), independently,
\* never wraps to 255, changes nothing else, also during a key wait.
C7_TickTimersFloorsAtZero ==
    [][ Called("tick_timers")
            => /\ delay_timer' = (IF delay_timer >= 1 THEN delay_timer - 1 ELSE 0)
               /\ sound_timer' = (IF sound_timer >= 1 THEN sound_timer - 1 ELSE 0)
               /\ UNCHANGED <<memory, display, registers, pc, stack, keypad,
                              wait_state, index_register>>
      ]_vars

\* C7 witness: tick_timers was called during a key wait and left the delay
\* timer at its floor 0 while the sound timer still runs.
C7_Witness ==
    /\ last_call.op = "tick_timers"
    /\ InWait
    /\ delay_timer = 0
    /\ sound_timer = 1

\* The live part of a stack: the return addresses pushed and not yet popped.
Live(st) == SubSeq(st.data, 1, st.sp)

\* C8: on a stack of capacity max_size a push below capacity succeeds, and a
\* push at depth = max_size returns a StackOverflow error value, without
\* aborting the process, and leaves the stack unchanged.
C8_PushAtCapacityReturnsOverflow ==
    [][ Called("push")
            => IF stack.sp < stack.max_size
               THEN /\ ~panicked'
                    /\ result' = OkResult
                    /\ Live(stack') = Append(Live(stack), last_call'.code)
               ELSE /\ ~panicked'
                    /\ result'.tag = "StackOverflow"
                    /\ stack' = stack
      ]_vars

\* C9: run_cycle executing ExitSubroutine on the empty stack returns a
\* StackUnderflow error to the caller, does not abort the process, and the
\* stack stays empty.
C9_ExitOnEmptyStackReturnsUnderflow ==
    [][ (Called("run_cycle") /\ ~InWait /\ CurInstr.op = "ExitSubroutine" /\ stack.sp = 0)
            => /\ ~panicked'
               /\ result'.tag = "StackUnderflow"
               /\ stack'.sp = 0
      ]_vars

\* C10: CallSubroutine(NNN) fetched from A pushes A + 2 and sets PC to NNN;
\* ExitSubroutine sets PC to the most recently pushed, not yet popped
\* address and pops it; nothing else changes the live stack (LIFO), within
\* the stack's capacity.
C10_CallReturnLIFO ==
    [][ /\ (Called("run_cycle") /\ ~InWait /\ ~panicked')
              => CASE CurInstr.op = "CallSubroutine" ->
                        /\ Live(stack') = Append(Live(stack), pc + 2)
                        /\ pc' = FetchWord(memory, pc) % 4096
                   [] CurInstr.op = "ExitSubroutine" ->
                        /\ stack.sp > 0
                        /\ pc' = Live(stack)[stack.sp]
                        /\ Live(stack') = SubSeq(Live(stack), 1, stack.sp - 1)
                   [] OTHER -> Live(stack') = Live(stack)
        /\ (Called("tick_timers") \/ Called("handle_key")) => stack' = stack
      ]_vars

\* C10 witness: two nested calls (from 0x200 and from 0x206) have both
\* returned: the stack is empty again and PC follows the outermost call.
C10_Witness ==
    /\ last_call.op = "run_cycle"
    /\ stack.sp = 0
    /\ stack.data = <<ROM_START + 2, ROM_START + 8>>
    /\ pc = ROM_START + 2
    /\ ~panicked

\* The pixel of the grid that coordinates (x, y) name when both are wrapped
\* into range: (x mod WIDTH, y mod HEIGHT).
WrappedPixel(d, x, y) == d[y % HEIGHT][x % WIDTH]

\* C11: set(x, y, v) writes pixel (x mod 64, y mod 32) for every x and y,
\* also at or beyond 64 and 32: right after set(x, y, v) that pixel holds v,
\* and no write is dropped or clipped.
C11_SetWrapsCoordinates ==
    [][ Called("set")
            => WrappedPixel(display', last_call'.code[1], last_call'.code[2])
                   = last_call'.pressed
      ]_vars

\* C12: get(x, y) succeeds for every x and y and returns the state of pixel
\* (x mod 64, y mod 32); it never reports an out-of-range error.
C12_GetAlwaysSucceeds ==
    [][ Called("get")
            => /\ result'.tag = "Ok"
               /\ (result'.val = 1)
                      = WrappedPixel(display, last_call'.code[1], last_call'.code[2])
               /\ display' = display
      ]_vars

\* A run_cycle step that executes the Display instruction at PC.
DrawStep == Called("run_cycle") /\ ~InWait /\ CurInstr.op = "Display"

\* Pixel (x, y) lies at column col of row `row` of the sprite rectangle of
\* the Display instruction at PC (positions wrap around the grid).
SpriteCell(x, y, row, col) ==
    /\ x = (registers[CurInstr.reg1] + col) % WIDTH
    /\ y = (registers[CurInstr.reg2] + row) % HEIGHT

\* The sprite bit at column col of row `row`: the most significant bit of
\* memory[I + row] is column 0.
SpriteBit(row, col) == Bit(memory[index_register + row], 7 - col) = 1

\* C13: Display composites by XOR: each pixel of the 8-by-N sprite rectangle
\* becomes old pixel XOR sprite bit (a pixel under a 0 bit keeps its value),
\* and every pixel outside the rectangle is unchanged.
C13_DisplayCompositesByXor ==
    [][ (DrawStep /\ ~panicked')
            => \A y \in 0..(HEIGHT - 1), x \in 0..(WIDTH - 1) :
                 IF \E row \in 0..(CurInstr.height - 1), col \in 0..7 :
                        SpriteCell(x, y, row, col)
                 THEN \A row \in 0..(CurInstr.height - 1), col \in 0..7 :
                        SpriteCell(x, y, row, col)
                            => display'[y][x] = (display[y][x] # SpriteBit(row, col))
                 ELSE display'[y][x] = display[y][x]
      ]_vars

\* C14: after Display VF is 1 if the draw turned at least one pixel from on
\* to off and 0 otherwise (so the second of two identical draws on a cleared
\* screen sets VF = 1 and the first sets VF = 0).
C14_VFIffPixelTurnedOff ==
    [][ (DrawStep /\ ~panicked')
            => registers'[15] =
                 IF \E y \in 0..(HEIGHT - 1), x \in 0..(WIDTH - 1) :
                        display[y][x] /\ ~display'[y][x]
                 THEN 1 ELSE 0
      ]_vars

\* A step in which execute was handed an instruction of kind op.
Executes(op) == Called("execute") /\ last_call'.code.op = op

\* The carry of Add(x, y) and the no-borrow flag of SubLeft(x, y) on the
\* values the registers hold before the instruction.
Carry(x, y) == IF registers[x] + registers[y] > 255 THEN 1 ELSE 0
NoBorrow(x, y) == IF registers[x] >= registers[y] THEN 1 ELSE 0

\* C15, as stated: for every x and y in 0..15, after Add(x, y) VF = 1 iff
\* the sum of the old Vx and Vy exceeds 255, and Vx is that sum mod 256.
C15_AddAsStated ==
    [][ Executes("Add")
            => LET x == last_call'.code.reg1
                   y == last_call'.code.reg2
               IN  /\ registers'[15] = Carry(x, y)
                   /\ registers'[x] = (registers[x] + registers[y]) % 256
      ]_vars

\* C15, amended: after Add(x, y) VF = 1 iff the sum of the old Vx and Vy
\* exceeds 255, and for x other than F Vx is that sum mod 256 (for x = F
\* the flag is what VF holds); the instruction never fails.
C15_AddCarryAndSum ==
    [][ Executes("Add")
            => LET x == last_call'.code.reg1
                   y == last_call'.code.reg2
               IN  /\ registers'[15] = Carry(x, y)
                   /\ x # 15 => registers'[x] = (registers[x] + registers[y]) % 256
                   /\ result' = OkResult /\ ~panicked'
      ]_vars

\* C15 witness: Add(6, 0) on V6 = 255, V0 = 10 has left V6 = 9 and VF = 1.
C15_Witness ==
    /\ last_call = Call("execute", RegRegInstr("Add", 6, 0), FALSE)
    /\ registers[0] = 10
    /\ registers[6] = 9
    /\ registers[15] = 1

\* C16, as stated: after SubLeft(x, y) Vx is (old Vx - old Vy) mod 256 and
\* VF = 1 iff old Vx >= old Vy.
C16_SubLeftAsStated ==
    [][ Executes("SubLeft")
            => LET x == last_call'.code.reg1
                   y == last_call'.code.reg2
               IN  /\ registers'[15] = NoBorrow(x, y)
                   /\ registers'[x] = (registers[x] - registers[y]) % 256
      ]_vars

\* C16, amended: after SubLeft(x, y) VF = 1 iff old Vx >= old Vy (equal
\* values included), and for x other than F Vx is (old Vx - old Vy) mod 256
\* (for x = F the flag is what VF holds); the subtraction never fails.
C16_SubLeftFlagAndDifference ==
    [][ Executes("SubLeft")
            => LET x == last_call'.code.reg1
                   y == last_call'.code.reg2
               IN  /\ registers'[15] = NoBorrow(x, y)
                   /\ x # 15 => registers'[x] = (registers[x] - registers[y]) % 256
                   /\ result' = OkResult /\ ~panicked'
      ]_vars

\* C16 witness: SubLeft(6, 0) on V6 = 1, V0 = 10 has borrowed: V6 = 247 and
\* VF = 0.
C16_Witness ==
    /\ last_call = Call("execute", RegRegInstr("SubLeft", 6, 0), FALSE)
    /\ registers[0] = 10
    /\ registers[6] = 247
    /\ registers[15] = 0

\* C17: AddVal(x, NN) sets Vx to (Vx + NN) mod 256, never fails, and leaves
\* every other register (VF too, when x is not F) unchanged.
C17_AddValWraps ==
    [][ Executes("AddVal")
            => LET x == last_call'.code.reg
                   nn == last_call'.code.val
               IN  /\ registers'[x] = (registers[x] + nn) % 256
                   /\ \A r \in RegNums : r # x => registers'[r] = registers[r]
                   /\ result' = OkResult /\ ~panicked'
      ]_vars

\* C17 witness: AddVal(6, 10) on V6 = 255 has wrapped to 9 and VF still
\* holds its 128.
C17_Witness ==
    /\ last_call = Call("execute", RegValInstr("AddVal", 6, 10), FALSE)
    /\ registers[6] = 9
    /\ registers[15] = 128

\* A run_cycle step that executes an instruction of kind op, fetched at PC
\* (a fetch outside memory panics and executes nothing).
Runs(op) ==
    /\ Called("run_cycle")
    /\ ~InWait
    /\ InMemory(pc) /\ InMemory(pc + 1)
    /\ CurInstr.op = op

\* C18: for I + k inside memory, StoreMem(k) writes V0..Vk to
\* memory[I..I+k] and changes nothing else, LoadMem(k) reads V0..Vk from
\* memory[I..I+k] and changes nothing else, neither changes I, and a
\* LoadMem(k) at the same I after a StoreMem(k), whatever happened to the
\* registers in between, gives V0..Vk the values they had at the StoreMem.
C18_StoreLoadRoundTrip ==
    [][ /\ (Runs("StoreMem") /\ InMemory(index_register + CurInstr.to_reg))
              => /\ ~panicked' /\ result' = OkResult
                 /\ \A a \in 0..(RAM_SIZE - 1) :
                      memory'[a] =
                        IF a \in index_register..(index_register + CurInstr.to_reg)
                        THEN registers[a - index_register] ELSE memory[a]
                 /\ registers' = registers
                 /\ index_register' = index_register
        /\ (Runs("LoadMem") /\ InMemory(index_register + CurInstr.to_reg))
              => /\ ~panicked' /\ result' = OkResult
                 /\ \A r \in RegNums :
                      registers'[r] = IF r <= CurInstr.to_reg
                                      THEN memory[index_register + r] ELSE registers[r]
                 /\ memory' = memory
                 /\ index_register' = index_register
        /\ (Runs("LoadMem") /\ stored.ok /\ stored.idx = index_register
            /\ stored.k = CurInstr.to_reg)
              => \A r \in 0..stored.k : registers'[r] = stored.vals[r]
      ]_vars

\* C18 witness: StoreMem(1) at I = 0x300 stored V0 = 0x11 and V1 = 0x22, V0
\* was then set to 0x33, and LoadMem(1) has brought 0x11 back.
C18_Witness ==
    /\ last_call.op = "run_cycle"
    /\ pc = ROM_START + 12
    /\ stored.ok /\ stored.idx = 768 /\ stored.k = 1
    /\ memory[ROM_START + 9] = 51
    /\ registers[0] = 17
    /\ registers[1] = 34

\* decode(word) has returned instr.
Decoded(word, instr) ==
    (phase = "decoded" /\ last_call.code = word) => result = instr

\* C19, as stated: decode(0x00E0) is ClearScreen, decode(0x6A3C) is
\* SetVal(0xA, 0x3C), decode(0xD125) is Display(1, 2, 5) and decode(0xF007)
\* is Unknown(0xF007).
C19_DecodeExamplesAsStated ==
    /\ Decoded(W(0,0,14,0), [op |-> "ClearScreen"])
    /\ Decoded(W(6,10,3,12), [op |-> "SetVal", reg |-> 10, val |-> 60])
    /\ Decoded(W(13,1,2,5), [op |-> "Display", reg1 |-> 1, reg2 |-> 2, height |-> 5])
    /\ Decoded(W(15,0,0,7), Unknown(W(15,0,0,7)))

\* C19, amended: decode(0x00E0) is ClearScreen, decode(0x6A3C) is
\* SetVal(0xA, 0x3C), decode(0xD125) is Display(1, 2, 5) and decode(0xF007)
\* is GetDelayTimer(0), the FX07 of the instruction table.
C19_DecodeExamples ==
    /\ Decoded(W(0,0,14,0), [op |-> "ClearScreen"])
    /\ Decoded(W(6,10,3,12), [op |-> "SetVal", reg |-> 10, val |-> 60])
    /\ Decoded(W(13,1,2,5), [op |-> "Display", reg1 |-> 1, reg2 |-> 2, height |-> 5])
    /\ Decoded(W(15,0,0,7), [op |-> "GetDelayTimer", reg |-> 0])

\* C19 witness: 0xF007 has been decoded, to GetDelayTimer(0).
C19_Witness ==
    /\ phase = "decoded"
    /\ last_call.code = W(15,0,0,7)
    /\ result.op = "GetDelayTimer"
    /\ result.reg = 0

\* The words the instruction table lists: 00E0, 00EE, 1NNN, 2NNN, 3XNN,
\* 4XNN, 5XY0, 6XNN, 7XNN, 8XY0..8XY7, 8XYE, 9XY0, ANNN, BNNN, CXNN, DXYN,
\* EX9E, EXA1, FX07, FX0A, FX15, FX18, FX1E, FX29, FX33, FX55, FX65.
InTable(word) ==
    LET family == word \div 4096
        low_nibble == word % 16
        low_byte == word % 256
    IN  \/ word \in {W(0,0,14,0), W(0,0,14,14)}
        \/ family \in {1, 2, 3, 4, 6, 7, 10, 11, 12, 13}
        \/ family \in {5, 9} /\ low_nibble = 0
        \/ family = 8 /\ low_nibble \in (0..7) \cup {14}
        \/ family = 14 /\ low_byte \in {158, 161}
        \/ family = 15 /\ low_byte \in {7, 10, 21, 24, 30, 41, 51, 85, 101}

\* C20: decode returns Unknown(word) for every 16-bit word that matches no
\* pattern of the table: 5XY_ and 9XY_ with a low nibble other than 0,
\* 0NE0 and 0NEE with N other than 0, 8XY8..8XYD and 8XYF, and the unlisted
\* low bytes of the E and F families.
C20_UnlistedWordsAreUnknown ==
    (phase = "decoded" /\ ~InTable(last_call.code))
        => (result.op = "Unknown" /\ result.code = last_call.code)

\* The hex digits B, C, D of a word ABCD.
NibbleB(word) == (word \div 256) % 16
NibbleC(word) == (word \div 16) % 16
NibbleD(word) == word % 16

\* C21: decode is total, and for every word of a pattern of the table its
\* operands sit at fixed positions: the address is word & 0x0FFF, the first
\* register is nibble B, the second register nibble C, the immediate the
\* low byte and the sprite height nibble D.
C21_OperandsAtFixedPositions ==
    (phase = "decoded" /\ InTable(last_call.code))
        => LET word == last_call.code
               has(f) == f \in DOMAIN result
           IN  /\ has("op")
               /\ has("addr") => result.addr = word % 4096
               /\ result.op \in {"SetIndex", "JumpOffset"} => result.val = word % 4096
               /\ (has("val") /\ result.op \notin {"SetIndex", "JumpOffset"})
                     => result.val = word % 256
               /\ has("reg") => result.reg = NibbleB(word)
               /\ has("to_reg") => result.to_reg = NibbleB(word)
               /\ has("reg1") => result.reg1 = NibbleB(word)
               /\ has("reg2") => result.reg2 = NibbleC(word)
               /\ has("height") => result.height = NibbleD(word)

\* C22: a run_cycle whose fetched word decodes to Unknown(word) returns
\* UnknownInstruction(word) and changes nothing but PC, advanced by 2; the
\* process goes on, and the next run_cycle executes the instruction at the
\* new PC as usual.
C22_UnknownInstructionError ==
    [][ /\ Runs("Unknown")
              => /\ result' = ErrResult("UnknownInstruction", FetchWord(memory, pc))
                 /\ ~panicked'
                 /\ pc' = pc + 2
                 /\ UNCHANGED <<memory, display, registers, stack, keypad, wait_state,
                                index_register, delay_timer, sound_timer>>
        /\ (result.tag = "UnknownInstruction" /\ Runs("SetVal"))
              => /\ result' = OkResult
                 /\ pc' = pc + 2
                 /\ registers' = [registers EXCEPT ![CurInstr.reg] = CurInstr.val]
      ]_vars

\* C22 witness: the word F0FF at 0x200 was refused, and the next run_cycle
\* has executed the SetVal V1 5 at 0x202.
C22_Witness ==
    /\ last_call.op = "run_cycle"
    /\ memory[ROM_START] = 240 /\ memory[ROM_START + 1] = 255
    /\ cycles = 2
    /\ pc = ROM_START + 4
    /\ registers[1] = 5
    /\ result = OkResult

\* C23: SkipIfPressed(x) and SkipNotPressed(x) with Vx above 0xF return
\* from run_cycle an error that carries Vx, skip nothing (PC is the fetch's
\* A + 2) and change no other state.
C23_InvalidKeyInSkip ==
    [][ ((Runs("SkipIfPressed") \/ Runs("SkipNotPressed")) /\ registers[CurInstr.reg] > 15)
            => /\ result' = ErrResult("UnknownKey", registers[CurInstr.reg])
               /\ ~panicked'
               /\ pc' = pc + 2
               /\ UNCHANGED <<memory, display, registers, stack, keypad, wait_state,
                              index_register, delay_timer, sound_timer>>
      ]_vars

\* C23 witness: SkipNotPressed V1 at 0x204 was executed with V1 = 0x20 and
\* returned the error, after SkipIfPressed V1 at 0x202 had done the same.
C23_Witness ==
    /\ last_call.op = "run_cycle"
    /\ registers[1] = 32
    /\ cycles = 3
    /\ pc = ROM_START + 6
    /\ result = ErrResult("UnknownKey", 32)

\* C24: load_rom copies ROM byte i to address 0x200 + i and leaves the rest
\* of memory unchanged; a ROM longer than the 4096 - 0x200 = 3584 bytes
\* available makes it return a RomLoadFailure error, without aborting.
C24_LoadRomCopiesOrFails ==
    [][ (Called("load_rom") /\ last_call'.pressed)
            => \E read \in Reads :
                 /\ read.ok
                 /\ Len(read.bytes) = last_call'.code
                 /\ ~panicked'
                 /\ IF Len(read.bytes) <= RAM_SIZE - ROM_START
                    THEN /\ result' = OkResult
                         /\ \A a \in 0..(RAM_SIZE - 1) :
                              memory'[a] =
                                IF a \in ROM_START..(ROM_START + Len(read.bytes) - 1)
                                THEN read.bytes[a - ROM_START + 1] ELSE memory[a]
                    ELSE result'.tag = "RomLoadFailure"
      ]_vars

\* The 16 glyphs of FONT lie one after the other from address base on, five
\* bytes each.
FontLaidOutAt(mem, base) ==
    \A d \in 0..15, j \in 0..4 : mem[base + 5 * d + j] = FONT[d + 1][j + 1]

\* The bytes of the font region that starts at base.
FontRegion(base) == base..(base + 5 * Len(FONT) - 1)

\* C25: after construction the glyphs are laid out contiguously from a
\* fixed font base, memory[base + 5 * d + j] being byte j of glyph d, and
\* every byte outside the 80 bytes of the font is 0.
C25_FontLaidOutContiguously ==
    phase = "new"
        => \E base \in 0..(RAM_SIZE - 5 * Len(FONT)) :
             /\ FontLaidOutAt(memory, base)
             /\ \A a \in 0..(RAM_SIZE - 1) : a \notin FontRegion(base) => memory[a] = 0

\* C26: FontChar(x) with Vx in 0..15 sets I to the address of the glyph of
\* digit Vx, font base + 5 * Vx, so that the five bytes from I on are that
\* glyph's.
C26_FontCharPointsAtGlyph ==
    [][ (Runs("FontChar") /\ registers[CurInstr.reg] \in 0..15)
            => LET digit == registers[CurInstr.reg]
               IN  /\ \E base \in 0..(RAM_SIZE - 5 * Len(FONT)) :
                        index_register' = base + 5 * digit
                   /\ \A j \in 0..4 : memory[index_register' + j] = FONT[digit + 1][j + 1]
      ]_vars

\* C27: Display never fails and wraps around the grid: for every Vx, Vy and
\* height the sprite bit at column c of row r acts on pixel
\* ((Vx + c) mod 64, (Vy + r) mod 32), so a sprite that crosses the right or
\* the bottom edge continues at column 0 or row 0, and no coordinate
\* overflows or falls outside the grid.
C27_DisplayWrapsAndNeverFails ==
    [][ DrawStep
            => /\ ~panicked'
               /\ result' = OkResult
               /\ \A row \in 0..(CurInstr.height - 1), col \in 0..7 :
                    SpriteBit(row, col)
                      => LET x == (registers[CurInstr.reg1] + col) % WIDTH
                             y == (registers[CurInstr.reg2] + row) % HEIGHT
                         IN  display'[y][x] = ~display[y][x]
      ]_vars

\* A run_cycle step that fetches a word of the pattern 8XY7.
Fetches8XY7 ==
    /\ Called("run_cycle") /\ ~InWait
    /\ InMemory(pc) /\ InMemory(pc + 1)
    /\ FetchWord(memory, pc) \div 4096 = 8
    /\ FetchWord(memory, pc) % 16 = 7

\* C28: fetching and executing 8XY7 sets Vx, the register of nibble B, to
\* (Vy - Vx) mod 256 and VF to 1 iff old Vy >= old Vx, and leaves Vy
\* unchanged when y is neither x nor F: the result is never stored in Vy.
C28_SubRightStoresInVx ==
    [][ Fetches8XY7
            => LET x == NibbleB(FetchWord(memory, pc))
                   y == NibbleC(FetchWord(memory, pc))
               IN  /\ x # 15 => registers'[x] = (registers[y] - registers[x]) % 256
                   /\ registers'[15] = (IF registers[y] >= registers[x] THEN 1 ELSE 0)
                   /\ (y # x /\ y # 15) => registers'[y] = registers[y]
      ]_vars

\* C29, as stated: ShiftRight(x, y) sets Vx to floor(Vx / 2) and VF to the
\* lowest bit of the old Vx; ShiftLeft(x, y) sets Vx to (2 * Vx) mod 256 and
\* VF to the highest bit of the old Vx.
C29_ShiftsAsStated ==
    [][ /\ Executes("ShiftRight")
              => LET x == last_call'.code.reg1
                 IN  /\ registers'[x] = registers[x] \div 2
                     /\ registers'[15] = registers[x] % 2
        /\ Executes("ShiftLeft")
              => LET x == last_call'.code.reg1
                 IN  /\ registers'[x] = (2 * registers[x]) % 256
                     /\ registers'[15] = registers[x] \div 128
      ]_vars

\* C29, amended: ShiftRight(x, y) sets VF to the lowest bit of the old Vx
\* and, for x other than F, Vx to floor(Vx / 2); ShiftLeft(x, y) sets VF to
\* the highest bit of the old Vx and, for x other than F, Vx to
\* (2 * Vx) mod 256 (for x = F the flag is what VF holds); both ignore Vy and
\* leave it unchanged, and the bits shifted out are lost.
C29_ShiftsFlagAndResult ==
    [][ /\ Executes("ShiftRight")
              => LET x == last_call'.code.reg1
                     y == last_call'.code.reg2
                 IN  /\ x # 15 => registers'[x] = registers[x] \div 2
                     /\ registers'[15] = registers[x] % 2
                     /\ \A r \in RegNums : r \notin {x, 15} => registers'[r] = registers[r]
                     /\ result' = OkResult /\ ~panicked'
        /\ Executes("ShiftLeft")
              => LET x == last_call'.code.reg1
                     y == last_call'.code.reg2
                 IN  /\ x # 15 => registers'[x] = (2 * registers[x]) % 256
                     /\ registers'[15] = registers[x] \div 128
                     /\ \A r \in RegNums : r \notin {x, 15} => registers'[r] = registers[r]
                     /\ result' = OkResult /\ ~panicked'
      ]_vars

\* C29 witness: ShiftRight(6, 0) on V6 = 254 (255 shifted left) has left
\* V6 = 127 and VF = 0, with V0 = 255 untouched.
C29_Witness ==
    /\ last_call = Call("execute", RegRegInstr("ShiftRight", 6, 0), FALSE)
    /\ registers[6] = 127
    /\ registers[15] = 0
    /\ registers[0] = 255

\* C30: CallSubroutine(NNN) fetched from A with the stack at full capacity
\* makes run_cycle return a StackOverflow error, without aborting the
\* process; the stack is unchanged and PC is A + 2, not NNN.
C30_CallOnFullStackReturnsOverflow ==
    [][ (Runs("CallSubroutine") /\ stack.sp = stack.max_size)
            => /\ ~panicked'
               /\ result'.tag = "StackOverflow"
               /\ stack' = stack
               /\ pc' = pc + 2
      ]_vars

\* The VM as a record of the values its fields have after the step.
VMAfter == [memory |-> memory', display |-> display', registers |-> registers',
            pc |-> pc', stack |-> stack', keypad |-> keypad',
            wait_state |-> wait_state', index_register |-> index_register',
            delay_timer |-> delay_timer', sound_timer |-> sound_timer',
            result |-> result', panicked |-> panicked']

\* The instructions that set PC themselves: jumps, calls and returns, the
\* skips, and GetKey (which moves PC back onto itself, see C2).
PcSetters == {"Jump", "JumpOffset", "CallSubroutine", "ExitSubroutine",
              "SkipValEqual", "SkipValNotEqual", "SkipRegEqual", "SkipRegNotEqual",
              "SkipIfPressed", "SkipNotPressed", "GetKey"}

\* C31: when not waiting (and PC + 1 inside memory), run_cycle fetches the
\* big-endian word memory[PC] * 256 + memory[PC + 1], adds 2 to PC and then
\* executes exactly the instruction decoded from that word; an instruction
\* at address A that is no jump, skip or GetKey leaves PC = A + 2.
C31_FetchBigEndianAdvanceExecute ==
    [][ (Called("run_cycle") /\ ~InWait /\ InMemory(pc + 1))
            => LET word == memory[pc] * 256 + memory[pc + 1]
                   instr == decode(word)
               IN  /\ \E rand_val \in RandBytes, overflow_checks \in BOOLEAN :
                        VMAfter = execute([VM EXCEPT !.pc = pc + 2], instr,
                                          rand_val, overflow_checks)
                   /\ (instr.op \notin PcSetters /\ ~panicked') => pc' = pc + 2
      ]_vars

\* C31 witness: the first cycle fetched 61 02 from 0x200 (two different
\* bytes), executed SetVal V1 2 and left PC = 0x202.
C31_Witness ==
    /\ last_call.op = "run_cycle"
    /\ cycles = 1
    /\ memory[ROM_START] = 97
    /\ memory[ROM_START + 1] = 2
    /\ registers[1] = 2
    /\ pc = ROM_START + 2

\* The word at PC, read from memory byte by byte.
WordAtPc == memory[pc] * 256 + memory[pc + 1]

\* The word is one of the skip instructions 3XNN, 4XNN, 5XY0, 9XY0, EX9E, EXA1.
IsSkipWord(word) ==
    \/ word \div 4096 \in {3, 4}
    \/ word \div 4096 \in {5, 9} /\ NibbleD(word) = 0
    \/ word \div 4096 = 14 /\ word % 256 \in {158, 161}

\* The condition under which the skip instruction `word` skips.
SkipCondition(word) ==
    LET family == word \div 4096
        vx == registers[NibbleB(word)]
        vy == registers[NibbleC(word)]
        nn == word % 256
    IN  CASE family = 3 -> vx = nn
          [] family = 4 -> vx # nn
          [] family = 5 -> vx = vy
          [] family = 9 -> vx # vy
          [] family = 14 /\ nn = 158 -> keypad[vx] = "Pressed"
          [] family = 14 /\ nn = 161 -> keypad[vx] = "NotPressed"

\* C32: a skip instruction fetched from address A (3XNN, 4XNN, 5XY0, 9XY0,
\* and EX9E, EXA1 with Vx a key) leaves PC = A + 4 when its condition holds
\* and PC = A + 2 when it does not, and changes no register, memory, timer,
\* display, stack, index, keypad or wait state.
C32_SkipsAddTwoIffCondition ==
    [][ ( /\ Called("run_cycle")
          /\ ~InWait
          /\ InMemory(pc + 1)
          /\ IsSkipWord(WordAtPc)
          /\ (WordAtPc \div 4096 = 14) => registers[NibbleB(WordAtPc)] \in 0..15 )
            => /\ pc' = (IF SkipCondition(WordAtPc) THEN pc + 4 ELSE pc + 2)
               /\ UNCHANGED <<memory, display, registers, stack, keypad, wait_state,
                              index_register, delay_timer, sound_timer>>
               /\ result' = OkResult
      ]_vars

\* C32 witness: SkipIfPressed V1 (E19E) at 0x202 ran with V1 = 1 and key 1
\* pressed, and PC went from 0x202 to 0x206.
C32_Witness ==
    /\ last_call.op = "run_cycle"
    /\ cycles = 2
    /\ memory[ROM_START + 2] = 225
    /\ memory[ROM_START + 3] = 158
    /\ registers[1] = 1
    /\ keypad[1] = "Pressed"
    /\ pc = ROM_START + 6

\* C33: for I + 2 inside memory, BinDecConv(x) writes three decimal digits,
\* each in 0..9, to memory[I], memory[I + 1], memory[I + 2] with
\* 100 * memory[I] + 10 * memory[I + 1] + memory[I + 2] = Vx, for every Vx
\* in 0..255, and leaves I, the registers and every other byte unchanged.
C33_BinDecConvWritesDecimalDigits ==
    [][ (Executes("BinDecConv") /\ InMemory(index_register + 2))
            => LET x == last_call'.code.reg
                   i == index_register
               IN  /\ \A k \in 0..2 : memory'[i + k] \in 0..9
                   /\ 100 * memory'[i] + 10 * memory'[i + 1] + memory'[i + 2]
                        = registers[x]
                   /\ memory' = [memory EXCEPT ![i] = memory'[i],
                                               ![i + 1] = memory'[i + 1],
                                               ![i + 2] = memory'[i + 2]]
                   /\ index_register' = i
                   /\ registers' = registers
                   /\ result' = OkResult /\ ~panicked'
      ]_vars

\* C33 witness: BinDecConv(6) on V6 = 219 and I = 4093 wrote 2, 1, 9 to the
\* last three bytes of memory.
C33_Witness ==
    /\ last_call.op = "execute"
    /\ last_call.code = [op |-> "BinDecConv", reg |-> 6]
    /\ registers[6] = 219
    /\ index_register = RAM_SIZE - 3
    /\ memory[RAM_SIZE - 3] = 2
    /\ memory[RAM_SIZE - 2] = 1
    /\ memory[RAM_SIZE - 1] = 9

\* C34: the VM never drives its own clock.  handle_key changes no timer;
\* run_cycle changes the delay timer only by executing SetDelayTimer(x) (to
\* Vx) and the sound timer only by executing SetSoundTimer(x) (to Vx);
\* GetDelayTimer(x) copies the delay timer into Vx and leaves it unchanged;
\* and k ticks after the last SetDelayTimer of value v, it reads
\* max(v - k, 0).
C34_TimersChangeOnlyByTickOrSet ==
    [][ /\ Called("handle_key") => UNCHANGED <<delay_timer, sound_timer>>
        /\ Called("run_cycle")
              => /\ delay_timer' # delay_timer => Runs("SetDelayTimer")
                 /\ sound_timer' # sound_timer => Runs("SetSoundTimer")
        /\ Runs("SetDelayTimer") => delay_timer' = registers[NibbleB(WordAtPc)]
        /\ Runs("SetSoundTimer") => sound_timer' = registers[NibbleB(WordAtPc)]
        /\ Runs("GetDelayTimer")
              => /\ registers'[NibbleB(WordAtPc)] = delay_timer
                 /\ delay_timer' = delay_timer
                 /\ delay_set.set
                      => registers'[NibbleB(WordAtPc)] =
                           (IF delay_set.val > delay_set.ticks
                            THEN delay_set.val - delay_set.ticks ELSE 0)
      ]_vars

\* C34 witness: SetDelayTimer set the timer to 3, two ticks followed, and
\* GetDelayTimer V2 read 1 and left the timer at 1.
C34_Witness ==
    /\ last_call.op = "run_cycle"
    /\ cycles = 3
    /\ memory[ROM_START + 4] = 242
    /\ memory[ROM_START + 5] = 7
    /\ delay_set = [set |-> TRUE, val |-> 3, ticks |-> 2]
    /\ registers[2] = 1
    /\ delay_timer = 1

\* C35: the key-wait state changes only in a handle_key call or in the
\* execution of a GetKey; every change is one of NotWaiting ->
\* WaitingForPress(x) (by GetKey(x)), WaitingForPress -> WaitingForRelease
\* and WaitingForRelease -> NotWaiting (both by handle_key); and while the
\* state is WaitingForPress(x), x is the register of the GetKey that started
\* the wait, the instruction PC is parked on.
C35_WaitStateTransitions ==
    [][ /\ wait_state' # wait_state
              => \/ /\ Runs("GetKey")
                    /\ wait_state = NotWaiting
                    /\ wait_state' = WaitingForPress(NibbleB(WordAtPc))
                 \/ /\ Called("handle_key")
                    /\ wait_state.tag = "WaitingForPress"
                    /\ wait_state'.tag = "WaitingForRelease"
                 \/ /\ Called("handle_key")
                    /\ wait_state.tag = "WaitingForRelease"
                    /\ wait_state' = NotWaiting
        /\ (Called("tick_timers") \/ (Called("run_cycle") /\ ~Runs("GetKey")))
              => wait_state' = wait_state
        /\ wait_state.tag = "WaitingForPress"
              => /\ CurInstr.op = "GetKey"
                 /\ wait_state.val = CurInstr.reg
      ]_vars

\* C35 witness: the wait started by the GetKey V3 at 0x202 has moved from
\* WaitingForPress(3) to WaitingForRelease(1) by a key event, V3 holding
\* the key.
C35_Witness ==
    /\ wait_state = WaitingForRelease(1)
    /\ last_call = KeyEvent(1, TRUE)
    /\ memory[ROM_START + 2] = 243
    /\ memory[ROM_START + 3] = 10
    /\ pc = ROM_START + 2
    /\ registers[3] = 1
    /\ cycles = 2

\* The addresses the instruction at PC reads or writes besides its own fetch:
\* the sprite rows I..I+N-1 of Display, I..I+2 of BinDecConv, I..I+x of
\* StoreMem and LoadMem.
OperandAddresses ==
    LET instr == CurInstr
    IN  CASE instr.op = "Display" -> index_register..(index_register + instr.height - 1)
          [] instr.op = "BinDecConv" -> index_register..(index_register + 2)
          [] instr.op \in {"StoreMem", "LoadMem"} ->
                index_register..(index_register + instr.to_reg)
          [] OTHER -> {}

\* C36: once a ROM is loaded, every address the VM reads or writes (the
\* fetch at PC and PC + 1, and the operand addresses of the instruction)
\* lies in 0..4095, and I and PC stay within 12 bits in every state, also
\* after AddToIndex and when execution runs on to the end of memory.
C36_AddressesStayInMemory ==
    [][ /\ (Called("run_cycle") /\ ~InWait)
              => /\ InMemory(pc) /\ InMemory(pc + 1)
                 /\ \A a \in OperandAddresses : InMemory(a)
        /\ (phase' = "running" /\ ~panicked')
              => /\ index_register' \in 0..(RAM_SIZE - 1)
                 /\ pc' \in 0..(RAM_SIZE - 1)
      ]_vars

\* C37: handle_key(k, p) with k a key sets the state of key k to Pressed iff
\* p and leaves the other 15 key states unchanged, in every wait state, and
\* nothing else changes a key state; so SkipIfPressed(x) with Vx = k skips
\* iff the last event for k was a press, and SkipNotPressed(x) skips iff it
\* was a release or there was no event for k yet.
C37_KeyStateFollowsLastEvent ==
    [][ /\ (Called("handle_key") /\ last_call'.code \in 0..15)
              => keypad' = [keypad EXCEPT ![last_call'.code] =
                               IF last_call'.pressed THEN "Pressed" ELSE "NotPressed"]
        /\ keypad' # keypad => Called("handle_key")
        /\ (Runs("SkipIfPressed") /\ registers[NibbleB(WordAtPc)] \in 0..15)
              => pc' = (IF key_events[registers[NibbleB(WordAtPc)]] = "press"
                        THEN pc + 4 ELSE pc + 2)
        /\ (Runs("SkipNotPressed") /\ registers[NibbleB(WordAtPc)] \in 0..15)
              => pc' = (IF key_events[registers[NibbleB(WordAtPc)]] \in {"release", "none"}
                        THEN pc + 4 ELSE pc + 2)
      ]_vars

\* C37 witness: key 1 was pressed and released, then SkipNotPressed V1 at
\* 0x204 (V1 = 1) skipped to 0x208, key 15 being held down meanwhile.
C37_Witness ==
    /\ last_call.op = "run_cycle"
    /\ cycles = 3
    /\ memory[ROM_START + 4] = 225
    /\ memory[ROM_START + 5] = 161
    /\ registers[1] = 1
    /\ key_events[1] = "release"
    /\ key_events[15] = "press"
    /\ keypad[15] = "Pressed"
    /\ pc = ROM_START + 8

\* C38: a freshly constructed VM has V0..VF all 0, PC = 0x200, I = 0, both
\* timers 0, an empty stack of capacity 100, every pixel off, all 16 keys
\* NotPressed and the wait state NotWaiting.
C38_FreshVMState ==
    phase = "new"
        => /\ DOMAIN registers = 0..15
           /\ \A r \in 0..15 : registers[r] = 0
           /\ pc = 512
           /\ index_register = 0
           /\ delay_timer = 0
           /\ sound_timer = 0
           /\ stack.sp = 0 /\ stack.data = <<>> /\ stack.max_size = 100
           /\ DOMAIN display = 0..31
           /\ \A y \in 0..31 : /\ DOMAIN display[y] = 0..63
                               /\ \A x \in 0..63 : display[y][x] = FALSE
           /\ DOMAIN keypad = 0..15
           /\ \A k \in 0..15 : keypad[k] = "NotPressed"
           /\ wait_state.tag = "NotWaiting"

\* C38 witness: Chip8VM::new has returned and no other call was made yet.
C38_Witness ==
    /\ phase = "new"
    /\ last_call.op = "new"
    /\ cycles = 0
    /\ ~panicked
    /\ memory[ROM_START] = 0

\* C39: when the driver delivers handle_key(c, true) in WaitingForPress(x)
\* and then handle_key(c, false), the release leaves the VM in NotWaiting
\* with PC on the instruction after the GetKey, where the next run_cycle
\* executes; and with a driver that delivers such a pair whenever the VM
\* waits, every wait ends: the VM does not stay in a waiting state.
C39_KeyPairEndsWait ==
    /\ [][ /\ ( /\ wait_state.tag = "WaitingForRelease"
                /\ wait_event = KeyEvent(wait_state.val, TRUE)
                /\ last_call' = KeyEvent(wait_state.val, FALSE) )
                  => /\ CurInstr.op = "GetKey"
                     /\ wait_state' = NotWaiting
                     /\ pc' = pc + 2
           /\ (Called("run_cycle") /\ ~InWait /\ phase = "running")
                  => cycles' = cycles + 1
         ]_vars
    /\ [](wait_state.tag = "WaitingForPress" => <>(wait_state.tag = "NotWaiting"))

\* C39 witness: the wait of the GetKey V1 at 0x200 was ended by the press
\* and the release of key 15, and the next run_cycle has executed the
\* SetVal V1 5 at 0x202.
C39_Witness ==
    /\ last_call.op = "run_cycle"
    /\ wait_event = KeyEvent(15, TRUE)
    /\ key_events[15] = "release"
    /\ key_events[1] = "none"
    /\ ~InWait
    /\ memory[ROM_START + 1] = 10
    /\ registers[1] = 5
    /\ pc = ROM_START + 4
    /\ cycles = 2

\* The flag of the arithmetic instruction op on registers x and y, computed
\* from the values the registers hold before it: the carry of Add, the
\* no-borrow of SubLeft (Vx >= Vy) and SubRight (Vy >= Vx), the bit shifted
\* out by ShiftRight and ShiftLeft.
FlagOf(op, x, y) ==
    CASE op = "Add" -> IF registers[x] + registers[y] > 255 THEN 1 ELSE 0
      [] op = "SubLeft" -> IF registers[x] >= registers[y] THEN 1 ELSE 0
      [] op = "SubRight" -> IF registers[y] >= registers[x] THEN 1 ELSE 0
      [] op = "ShiftRight" -> registers[x] % 2
      [] op = "ShiftLeft" -> (registers[x] \div 128) % 2

\* C40: after Add, SubLeft, SubRight, ShiftRight and ShiftLeft, VF is 0 or
\* 1 for every x and y, and it is the flag computed from the values before
\* the instruction, also when VF is the destination (x = F): the flag is
\* written last and replaces the arithmetic result.
C40_FlagWrittenLast ==
    [][ \A op \in {"Add", "SubLeft", "SubRight", "ShiftRight", "ShiftLeft"} :
            Executes(op)
                => LET x == last_call'.code.reg1
                       y == last_call'.code.reg2
                   IN  /\ registers'[15] \in {0, 1}
                       /\ registers'[15] = FlagOf(op, x, y)
                       /\ result' = OkResult /\ ~panicked'
      ]_vars

\* C40 witness: Add(F, F) has left VF = 1, the carry, and not the sum
\* (2 * VF) mod 256, which is even.
C40_Witness ==
    /\ last_call = Call("execute", RegRegInstr("Add", 15, 15), FALSE)
    /\ registers[15] = 1

====
